---- MODULE Spec2Model ----
(***************************************************************************)
(* Model of the graph colouring code of thesis/code: the GRAPH and DEGREE  *)
(* data structures of datastructures.py and the Wigderson algorithm family *)
(* (b, c, d, e, bfs, delta_coloring, sequential_coloring and the SDR       *)
(* variants) of algorithms.py.                                             *)
(*                                                                         *)
(* A DoublyLinkedList is a duplicate-free sequence of node ids (its        *)
(* 'elements' dictionary is the set of the sequence's members).  A GRAPH   *)
(* is a record: 'vertices' is the vertex list, 'data' the adjacency list   *)
(* of every vertex, 'color' the Node.color of every vertex, 'bucket' says  *)
(* whether Node.bucket points to a copy in a DEGREE, 'm' and 'n' are the   *)
(* cached counters and 'degrees' is the DEGREE structure (built = FALSE    *)
(* stands for degrees = None).  An exception is the string in 'err'.       *)
(***************************************************************************)
EXTENDS Integers, Sequences, FiniteSets, TLC

\* ---------------------------------------------------------------- bounds
MaxN == 4                \* every labelled graph on 1..n, n <= MaxN, is an input
PoolSize == 6            \* optional edges of the nine-vertex input family
MaxStart == 2            \* first colours i given to b(k, G, i)
MaxK == 3                \* b is called directly with k in 2 .. MaxK
StoreN == 3              \* vertex ids 1 .. StoreN are used on the graph store
MaxPick == 2             \* random draws are taken from 0 .. MaxPick
MaxDraws == 3            \* the streams of draws repeat after 2 or MaxDraws draws
MaxOps == 4              \* operations applied to a graph store in Spec

\* ------------------------------------------------------ program constants
\* datastructures.SENTINEL is 2 ** 63 - 1; the model's integers are 32 bit
\* wide, and the code only needs it to exceed every degree and colour.
SENTINEL == 2147483647
MAX_ITER == 100
WINNER_PROPOSAL_C == 8
WINNER_PROPOSAL_D == 30

BigN == 2 * 4 + 1        \* least n with 3 < log2(n): b(3, ..) enters its loop
WideN == 2 * 8 + 1       \* least n with 4 < log2(n): the loop of b(4, ..) can
                         \* recurse into the loop of b(3, ..)
VID == 1 .. WideN        \* vertex ids
DEG == -1 .. WideN       \* bucket keys (decrease of a degree-0 vertex makes -1)

NoErr == ""
Range(s) == {s[i] : i \in DOMAIN s}
Max(a, b) == IF a >= b THEN a ELSE b
Min(a, b) == IF a <= b THEN a ELSE b

\* TLC hands an operator its arguments unevaluated: a loop that never looks at
\* the value it builds would nest one expression per turn.  Such loops look at
\* it once per turn through this test, which is true of every value.
Evaluated(val) == val = val

\* ------------------------------------------------------ DoublyLinkedList
contains(list, nid) == nid \in Range(list)

append(list, nid) == IF contains(list, nid) THEN list ELSE list \o <<nid>>

remove(list, nid) == SelectSeq(list, LAMBDA x : x # nid)

is_empty(list) == list = <<>>

\* where the node with id nid stands in a list that holds it
position(list, nid) == CHOOSE i \in 1 .. Len(list) : list[i] = nid

\* position of the first node whose id is smaller than value, from position i
RECURSIVE insert_pos(_, _, _)
insert_pos(list, value, i) ==
    IF i > Len(list) THEN 0
    ELSE IF value > list[i] THEN i
    ELSE insert_pos(list, value, i + 1)

insert(list, value) ==
    IF contains(list, value) THEN list
    ELSE IF is_empty(list) THEN append(list, value)
    ELSE IF value < list[Len(list)] THEN append(list, value)
    ELSE LET p == insert_pos(list, value, 1)
         IN  IF p = 0 THEN list
             ELSE SubSeq(list, 1, p - 1) \o <<value>> \o SubSeq(list, p, Len(list))

\* ---------------------------------------------------------------- DEGREE
NewDEGREE(isBuilt) ==
    [built |-> isBuilt, buckets |-> <<>>, data |-> [d \in DEG |-> <<>>],
     max_degree |-> 0, min_degree |-> SENTINEL]

\* ----------------------------------------------------------------- GRAPH
NewGRAPH ==
    [vertices |-> <<>>,
     data     |-> [v \in VID |-> <<>>],
     color    |-> [v \in VID |-> SENTINEL],
     bucket   |-> [v \in VID |-> FALSE],
     m |-> 0, n |-> 0,
     degrees  |-> NewDEGREE(FALSE)]

Live(g) == Range(g.vertices)
len(g, v) == Len(g.data[v])

add_vertex(g, vid) ==
    IF contains(g.vertices, vid) THEN g
    ELSE [g EXCEPT !.vertices = append(@, vid), !.data[vid] = <<>>,
                   !.color[vid] = SENTINEL, !.bucket[vid] = FALSE,
                   !.m = @ + 1]

\* GRAPH.add_edge.  Result: [g, ret].  The second append is skipped when the
\* first one fails ('result and ..').
add_edge_r(g, endA, endB) ==
    IF contains(g.vertices, endA) /\ contains(g.vertices, endB)
    THEN LET r1 == ~contains(g.data[endA], endB)
             g1 == [g EXCEPT !.data[endA] = append(@, endB)]
             r2 == r1 /\ ~contains(g1.data[endB], endA)
             g2 == IF r2 THEN [g1 EXCEPT !.data[endB] = append(@, endA),
                                         !.n = @ + 1]
                   ELSE g1
         IN  [g |-> g2, ret |-> r2]
    ELSE [g |-> g, ret |-> FALSE]

add_edge(g, endA, endB) == add_edge_r(g, endA, endB).g

\* DEGREE.add: the vertex goes to the bucket of its current degree
add(g, v) ==
    LET deg == len(g, v)
        D   == g.degrees
    IN  IF contains(D.buckets, deg)
        THEN [g EXCEPT !.bucket[v] = TRUE,
                       !.degrees.data[deg] = append(@, v)]
        ELSE [g EXCEPT !.bucket[v] = TRUE,
                       !.degrees.buckets = insert(@, deg),
                       !.degrees.data[deg] = <<v>>,
                       !.degrees.max_degree = IF deg > @ THEN deg ELSE @,
                       !.degrees.min_degree = IF deg < @ THEN deg ELSE @]

RECURSIVE build_loop(_, _, _)
build_loop(g, vs, i) ==
    IF Evaluated(g) /\ i > Len(vs) THEN g ELSE build_loop(add(g, vs[i]), vs, i + 1)

build_DEGREE(g) ==
    build_loop([g EXCEPT !.degrees = NewDEGREE(TRUE)], g.vertices, 1)

\* decrease that puts a missing bucket deg - 1 at the end of the buckets
decrease_buckets_at_end(D, nid, deg, found) ==
    [D EXCEPT
       !.buckets = IF contains(@, deg - 1) THEN @ ELSE @ \o <<deg - 1>>,
       !.data = [@ EXCEPT ![deg] = remove(@, nid),
                          ![deg - 1] = IF found THEN append(@, nid) ELSE @]]

\* DEGREE.decrease, the buckets: the vertex leaves bucket deg for bucket
\* deg - 1, which is spliced in right after bucket deg when it is missing.
\* found: the vertex was in bucket deg (copy_vertex is not None).
decrease_buckets(D, nid, deg, found) ==
    [D EXCEPT
       !.buckets = IF contains(@, deg - 1) THEN @
                   ELSE SubSeq(@, 1, position(@, deg)) \o <<deg - 1>>
                        \o SubSeq(@, position(@, deg) + 1, Len(@)),
       !.data = [@ EXCEPT ![deg] = remove(@, nid),
                          ![deg - 1] = IF found THEN append(@, nid) ELSE @]]

\* DEGREE.decrease on graph.vertices[nid]: the vertex moves from the bucket of
\* its current adjacency length to the next lower one; the adjacency list is
\* not touched.  Result: [g, err].
decrease(g, nid) ==
    IF ~contains(g.vertices, nid)
    THEN [g |-> g, err |-> "TypeError"]               \* len(None)
    ELSE IF \/ ~g.degrees.built
            \/ ~contains(g.degrees.buckets, len(g, nid))
            \/ ~g.bucket[nid]
    THEN [g |-> g, err |-> "AttributeError"]      \* None.decrease, None.data, None.nid
    ELSE [g |-> [g EXCEPT !.degrees = decrease_buckets(@, nid, len(g, nid),
                            contains(@.data[len(g, nid)], nid))],
          err |-> IF contains(g.degrees.data[len(g, nid)], nid) THEN NoErr
                  ELSE "AttributeError"]              \* append(None)

\* delete_edge that takes endB out of endA's list only
delete_edge_one_end(g, endA, endB) ==
    IF contains(g.vertices, endA) /\ contains(g.vertices, endB)
    THEN IF ~contains(g.data[endA], endB)
         THEN [g |-> g, ret |-> FALSE, err |-> "AttributeError"]
         ELSE [g |-> [g EXCEPT !.data[endA] = remove(@, endB), !.n = @ - 1],
               ret |-> TRUE, err |-> NoErr]
    ELSE [g |-> g, ret |-> FALSE, err |-> NoErr]

\* GRAPH.delete_edge.  Result: [g, ret, err].
delete_edge(g, endA, endB) ==
    IF contains(g.vertices, endA) /\ contains(g.vertices, endB)
    THEN IF ~contains(g.data[endA], endB)
         THEN [g |-> g, ret |-> FALSE, err |-> "AttributeError"]   \* nodeA is None
         ELSE LET g1 == [g EXCEPT !.data[endA] = remove(@, endB)]
                  r2 == contains(g1.data[endB], endA)
              IN  [g |-> [g1 EXCEPT !.data[endB] = remove(@, endA),
                                    !.n = IF r2 THEN @ - 1 ELSE @],
                   ret |-> r2, err |-> NoErr]
    ELSE [g |-> g, ret |-> FALSE, err |-> NoErr]

\* GRAPH.delete_vertex: neither the neighbours' lists nor DEGREE are updated
delete_vertex(g, vid) ==
    IF ~contains(g.vertices, vid) THEN g
    ELSE [g EXCEPT !.vertices = remove(@, vid), !.m = @ - 1,
                   !.data[vid] = <<>>, !.color[vid] = SENTINEL,
                   !.bucket[vid] = FALSE]

\* first position >= i of a non-empty bucket, 0 when the scan runs off the list
RECURSIVE scan_down(_, _)
scan_down(D, i) ==
    IF i > Len(D.buckets) THEN 0
    ELSE IF ~is_empty(D.data[D.buckets[i]]) THEN i
    ELSE scan_down(D, i + 1)

\* last position <= i of a non-empty bucket, 0 when the scan runs off the list
RECURSIVE scan_up(_, _)
scan_up(D, i) ==
    IF i < 1 THEN 0
    ELSE IF ~is_empty(D.data[D.buckets[i]]) THEN i
    ELSE scan_up(D, i - 1)

with_DEGREE(g) == IF g.degrees.built THEN g ELSE build_DEGREE(g)

\* The outcome of a scan from the high end that stopped at position p of the
\* bucket list (0: it ran off the list).  byVertex is get_max_degree_vertex,
\* which sets max_degree at every bucket it visits and returns the first
\* vertex of the bucket, whether or not it is still a vertex of the graph;
\* otherwise get_max_degree, which returns the degree.  Result: [g, ret, err].
max_bucket(g, p, byVertex) ==
    IF p = 0
    THEN [g |-> [g EXCEPT !.degrees.max_degree =
                    IF byVertex /\ ~is_empty(g.degrees.buckets)
                    THEN g.degrees.buckets[Len(g.degrees.buckets)] ELSE @],
          ret |-> 0, err |-> "AttributeError"]
    ELSE [g |-> [g EXCEPT !.degrees.max_degree = g.degrees.buckets[p]],
          ret |-> IF byVertex THEN g.degrees.data[g.degrees.buckets[p]][1]
                  ELSE g.degrees.buckets[p],
          err |-> NoErr]

\* the same from the low end, for min_degree
min_bucket(g, p, byVertex) ==
    IF p = 0
    THEN [g |-> [g EXCEPT !.degrees.min_degree =
                    IF byVertex /\ ~is_empty(g.degrees.buckets)
                    THEN g.degrees.buckets[1] ELSE @],
          ret |-> 0, err |-> "AttributeError"]
    ELSE [g |-> [g EXCEPT !.degrees.min_degree = g.degrees.buckets[p]],
          ret |-> IF byVertex THEN g.degrees.data[g.degrees.buckets[p]][1]
                  ELSE g.degrees.buckets[p],
          err |-> NoErr]

max_scan(g, byVertex) == max_bucket(g, scan_down(g.degrees, 1), byVertex)
min_scan(g, byVertex) ==
    min_bucket(g, scan_up(g.degrees, Len(g.degrees.buckets)), byVertex)

\* Result of each: [g, ret, err].
get_max_degree(g0)        == max_scan(with_DEGREE(g0), FALSE)
get_max_degree_vertex(g0) == max_scan(with_DEGREE(g0), TRUE)
get_min_degree(g0)        == min_scan(with_DEGREE(g0), FALSE)
get_min_degree_vertex(g0) == min_scan(with_DEGREE(g0), TRUE)

\* GRAPH.is_valid: no neighbour of nid holds color.  Result: [ret, err]; a
\* neighbour that is no longer a vertex of the graph is dereferenced as None.
RECURSIVE is_valid_loop(_, _, _, _)
is_valid_loop(g, nbs, color, i) ==
    IF i > Len(nbs) THEN [ret |-> TRUE, err |-> NoErr]
    ELSE IF ~contains(g.vertices, nbs[i]) THEN [ret |-> FALSE, err |-> "AttributeError"]
    ELSE IF color = g.color[nbs[i]] THEN [ret |-> FALSE, err |-> NoErr]
    ELSE is_valid_loop(g, nbs, color, i + 1)

\* is_valid that never looks at the neighbours
is_valid_unchecked(g, nid, color) == [ret |-> TRUE, err |-> NoErr]

is_valid(g, nid, color) == is_valid_loop(g, g.data[nid], color, 1)

\* GRAPH.__deepcopy__: vertices are re-added in list order, then every
\* adjacency entry is re-added with add_edge, then DEGREE is rebuilt if the
\* source had one.
RECURSIVE copy_vertices(_, _, _)
copy_vertices(src, cp, i) ==
    IF Evaluated(cp) /\ i > Len(src.vertices) THEN cp
    ELSE LET v == src.vertices[i]
         IN  copy_vertices(src, [add_vertex(cp, v) EXCEPT !.color[v] = src.color[v]],
                           i + 1)

RECURSIVE copy_edges(_, _, _, _)
copy_edges(src, cp, i, j) ==
    IF Evaluated(cp) /\ i > Len(src.vertices) THEN cp
    ELSE LET v == src.vertices[i]
         IN  IF j > Len(src.data[v]) THEN copy_edges(src, cp, i + 1, 1)
             ELSE copy_edges(src, add_edge(cp, v, src.data[v][j]), i, j + 1)

\* copy_DEGREE that never builds the DEGREE of the copy
copy_DEGREE_never(src, cp) == cp

copy_DEGREE(src, cp) == IF src.degrees.built THEN build_DEGREE(cp) ELSE cp

deepcopy(g) == copy_DEGREE(g, copy_edges(g, copy_vertices(g, NewGRAPH, 1), 1, 1))

\* GRAPH.subgraph, first loop: the neighbours of 'vertex' move from the graph
\* to the subgraph, adjacency lists and colours with them.  st = [g, sub, err].
RECURSIVE subgraph_move(_, _, _)
subgraph_move(st, nbs, i) ==
    IF i > Len(nbs) \/ st.err # NoErr THEN st
    ELSE LET nb == nbs[i]
             g  == st.g
         IN  IF ~contains(g.vertices, nb)
             THEN [st EXCEPT !.err = "AttributeError"]      \* append(None)
             ELSE subgraph_move(
                    [g   |-> [g EXCEPT !.vertices = remove(@, nb),
                                       !.data[nb] = <<>>,
                                       !.color[nb] = SENTINEL,
                                       !.bucket[nb] = FALSE,
                                       !.m = @ - 1],
                     sub |-> [st.sub EXCEPT !.vertices = append(@, nb),
                                            !.data[nb] = g.data[nb],
                                            !.color[nb] = g.color[nb],
                                            !.bucket[nb] = g.bucket[nb],
                                            !.m = @ + 1],
                     err |-> NoErr],
                    nbs, i + 1)

\* subgraph_cut that leaves the edge in the adjacency list of the outer endpoint
subgraph_cut_one_side(st, sv, nb, r) ==
    IF r.err # NoErr THEN [st EXCEPT !.g = r.g, !.err = r.err]
    ELSE [st EXCEPT !.g = [r.g EXCEPT !.n = @ - 1],
                    !.sub.data[sv] = remove(@, nb)]

\* second loop, an edge that leaves the subgraph, after the outer endpoint
\* was decreased in DEGREE with result r: it is deleted on both sides.
subgraph_cut(st, sv, nb, r) ==
    IF r.err # NoErr THEN [st EXCEPT !.g = r.g, !.err = r.err]
    ELSE [st EXCEPT !.g = [r.g EXCEPT !.n = @ - 1, !.data[nb] = remove(@, sv)],
                    !.sub.data[sv] = remove(@, nb)]

\* second loop, one neighbour nb of sub_vertex sv
subgraph_edge(st, sv, nb) ==
    IF contains(st.sub.vertices, nb)
    THEN IF sv < nb THEN [st EXCEPT !.g.n = @ - 1] ELSE st
    ELSE IF ~st.g.degrees.built
    THEN [st EXCEPT !.err = "AttributeError"]               \* None.decrease
    ELSE subgraph_cut(st, sv, nb, decrease(st.g, nb))

\* second loop, inner loop: the adjacency list of sub_vertex as it was when
\* its turn came
RECURSIVE subgraph_edges(_, _, _, _)
subgraph_edges(st, sv, nbs, i) ==
    IF i > Len(nbs) \/ st.err # NoErr THEN st
    ELSE subgraph_edges(subgraph_edge(st, sv, nbs[i]), sv, nbs, i + 1)

\* the cached extremal degrees after sub_vertex left bucket 'bucket'
subgraph_extremes(D, bucket) ==
    [D EXCEPT
       !.max_degree = IF bucket = D.max_degree /\ is_empty(D.data[bucket])
                      THEN (IF scan_down(D, 1) = 0 THEN 0
                            ELSE D.buckets[scan_down(D, 1)])
                      ELSE @,
       !.min_degree = IF bucket = D.min_degree /\ is_empty(D.data[bucket])
                      THEN (IF scan_up(D, Len(D.buckets)) = 0 THEN SENTINEL
                            ELSE D.buckets[scan_up(D, Len(D.buckets))])
                      ELSE @]

\* second loop, the end of sub_vertex's turn: the subgraph counts its edges
\* and the vertex leaves the bucket of the degree it came with
subgraph_leave(st, sv, bucket) ==
    IF st.err # NoErr THEN st
    ELSE IF ~st.g.degrees.built \/ ~contains(st.g.degrees.buckets, bucket)
    THEN [st EXCEPT !.sub.n = @ + Len(st.sub.data[sv]), !.err = "AttributeError"]
    ELSE [st EXCEPT !.sub.n = @ + Len(st.sub.data[sv]),
                    !.g.degrees = subgraph_extremes(
                                    [@ EXCEPT !.data[bucket] = remove(@, sv)], bucket)]

\* second loop: one turn per vertex of the subgraph
RECURSIVE subgraph_update(_, _, _)
subgraph_update(st, svs, i) ==
    IF i > Len(svs) \/ st.err # NoErr THEN st
    ELSE subgraph_update(
           subgraph_leave(subgraph_edges(st, svs[i], st.sub.data[svs[i]], 1),
                          svs[i], Len(st.sub.data[svs[i]])),
           svs, i + 1)

\* subgraph_halve that leaves every edge of the subgraph counted twice
subgraph_unhalved(st) == st

subgraph_halve(st) == IF st.err # NoErr THEN st ELSE [st EXCEPT !.sub.n = @ \div 2]

subgraph_rest(st) == subgraph_halve(subgraph_update(st, st.sub.vertices, 1))

\* GRAPH.subgraph(vertex), vertex a vertex of g.  Result: [g, sub, err].
subgraph(g, vertex) ==
    subgraph_rest(subgraph_move([g |-> g, sub |-> NewGRAPH, err |-> NoErr],
                                g.data[vertex], 1))

\* ------------------------------------------------------------ algorithms
\* A colour dictionary is a function from the vertex ids it holds to colours.
put(dict, vid, colour) == (vid :> colour) @@ dict

\* the highest value of a dictionary, 0 for none (the max_color loops)
max_value(dict) ==
    IF DOMAIN dict = {} THEN 0
    ELSE LET top == CHOOSE x \in DOMAIN dict : \A y \in DOMAIN dict : dict[y] <= dict[x]
         IN  Max(0, dict[top])

\* bfs: a vertex is marked, coloured and put on the queue
\* st = [g, dict, flag, queue, ok, err]: flag is the set of marked vertices,
\* ok the boolean bfs returns.
bfs_mark(st, v, c) ==
    [st EXCEPT !.flag = @ \cup {v}, !.g.color[v] = c, !.dict = put(@, v, c),
               !.queue = append(@, v)]

\* bfs, first loop: isolated vertices are coloured and marked, the flag of
\* every other vertex is reset
RECURSIVE bfs_isolated(_, _, _)
bfs_isolated(st, color, i) ==
    IF i > Len(st.g.vertices) THEN st
    ELSE bfs_isolated(
           IF len(st.g, st.g.vertices[i]) = 0
           THEN [st EXCEPT !.g.color[st.g.vertices[i]] = color,
                           !.flag = @ \cup {st.g.vertices[i]},
                           !.dict = put(@, st.g.vertices[i], color)]
           ELSE [st EXCEPT !.flag = @ \ {st.g.vertices[i]}],
           color, i + 1)

\* bfs_neighbor that does not compare the colours of two marked vertices
bfs_neighbor_no_conflict(st, color, current, nb) ==
    IF ~contains(st.g.vertices, nb)
    THEN [st EXCEPT !.err = "AttributeError"]
    ELSE IF nb \notin st.flag
    THEN bfs_mark(st, nb, IF st.g.color[current] = color THEN color + 1 ELSE color)
    ELSE st

\* one entry nb of the adjacency list of 'current'
bfs_neighbor(st, color, current, nb) ==
    IF ~contains(st.g.vertices, nb)
    THEN [st EXCEPT !.err = "AttributeError"]                  \* None.flag
    ELSE IF nb \notin st.flag
    THEN bfs_mark(st, nb, IF st.g.color[current] = color THEN color + 1 ELSE color)
    ELSE IF st.g.color[current] = st.g.color[nb] THEN [st EXCEPT !.ok = FALSE]
    ELSE st

\* the adjacency list of 'current' is checked, from entry j on
RECURSIVE bfs_neighbors(_, _, _, _)
bfs_neighbors(st, color, current, j) ==
    IF st.err # NoErr \/ ~st.ok \/ j > len(st.g, current) THEN st
    ELSE bfs_neighbors(bfs_neighbor(st, color, current, st.g.data[current][j]),
                       color, current, j + 1)

\* the while loop on the queue
RECURSIVE bfs_queue(_, _)
bfs_queue(st, color) ==
    IF st.err # NoErr \/ ~st.ok \/ is_empty(st.queue) THEN st
    ELSE bfs_queue(bfs_neighbors([st EXCEPT !.queue = Tail(@)], color,
                                 Head(st.queue), 1),
                   color)

\* second loop: every vertex not yet marked is the root of a new tree
RECURSIVE bfs_roots(_, _, _)
bfs_roots(st, color, i) ==
    IF st.err # NoErr \/ ~st.ok \/ i > Len(st.g.vertices) THEN st
    ELSE IF st.g.vertices[i] \in st.flag THEN bfs_roots(st, color, i + 1)
    ELSE bfs_roots(bfs_queue(bfs_mark([st EXCEPT !.queue = <<>>],
                                      st.g.vertices[i], color),
                             color),
                   color, i + 1)

\* bfs(graph, color_dict, color).  Result: [g, dict, flag, queue, ok, err].
bfs(g, color_dict, color) ==
    bfs_roots(bfs_isolated([g |-> g, dict |-> color_dict, flag |-> {},
                            queue |-> <<>>, ok |-> TRUE, err |-> NoErr], color, 1),
              color, 1)

\* sequential_coloring.  Result: [g, dict, ret, err].
RECURSIVE sequential_loop(_, _, _)
sequential_loop(st, color, i) ==
    IF i > Len(st.g.vertices) THEN st
    ELSE sequential_loop(
           [st EXCEPT !.g.color[st.g.vertices[i]] = color + st.ret,
                      !.dict = put(@, st.g.vertices[i], color + st.ret),
                      !.ret = @ + 1],
           color, i + 1)

sequential_coloring(g, color_dict, color) ==
    sequential_loop([g |-> g, dict |-> color_dict, ret |-> 0, err |-> NoErr], color, 1)

\* delta_coloring, the while loop: the least colour >= current_color that
\* is_valid accepts for nid; r is what is_valid said of current_color.
\* Result: [ret, err].
RECURSIVE first_valid(_, _, _)
RECURSIVE first_valid_step(_, _, _, _)
first_valid_step(g, nid, current_color, r) ==
    IF r.err # NoErr THEN [ret |-> current_color, err |-> r.err]
    ELSE IF r.ret THEN [ret |-> current_color, err |-> NoErr]
    ELSE first_valid(g, nid, current_color + 1)

first_valid(g, nid, current_color) ==
    first_valid_step(g, nid, current_color, is_valid(g, nid, current_color))

\* delta_coloring, the end of a turn: colors_used (st.ret) is checked against
\* md, the result of get_max_degree, and the vertex gets its colour
delta_check(st, v, current_color, md) ==
    IF md.err # NoErr THEN [st EXCEPT !.g = md.g, !.err = md.err]
    ELSE IF st.ret > md.ret + 1 THEN [st EXCEPT !.g = md.g, !.err = "RuntimeError"]
    ELSE [st EXCEPT !.g = [md.g EXCEPT !.color[v] = current_color],
                    !.dict = put(@, v, current_color)]

\* one turn that takes the colour itself, not its distance from the start
\* colour, for colors_used
delta_vertex_absolute(st, color, v, fc) ==
    IF fc.err # NoErr THEN [st EXCEPT !.err = fc.err]
    ELSE delta_check([st EXCEPT !.ret = Max(@, fc.ret)], v, fc.ret,
                     get_max_degree(st.g))

\* delta_coloring, one turn for vertex v; fc is the result of the while loop
delta_vertex(st, color, v, fc) ==
    IF fc.err # NoErr THEN [st EXCEPT !.err = fc.err]
    ELSE delta_check([st EXCEPT !.ret = Max(@, fc.ret - color)], v, fc.ret,
                     get_max_degree(st.g))

RECURSIVE delta_loop(_, _, _)
delta_loop(st, color, i) ==
    IF st.err # NoErr \/ i > Len(st.g.vertices) THEN st
    ELSE delta_loop(delta_vertex(st, color, st.g.vertices[i],
                                 first_valid(st.g, st.g.vertices[i], color)),
                    color, i + 1)

\* delta_coloring.  Result: [g, dict, ret, err]; ret is colors_used.
delta_coloring(g, color_dict, color) ==
    delta_loop([g |-> g, dict |-> color_dict, ret |-> 0, err |-> NoErr], color, 1)

RECURSIVE Pow(_, _)
Pow(x, e) == IF e = 0 THEN 1 ELSE x * Pow(x, e - 1)

\* math.ceil(f_k(k, x)) for k >= 2: the least t with t >= x ^ (1 - 1/(k - 1)),
\* that is with t ^ (k - 1) >= x ^ (k - 2).  For k = 1 f_k divides by zero.
ceil_f_k(k, x) ==
    CHOOSE t \in 0 .. Max(x, 1) :
        /\ Pow(t, k - 1) >= Pow(x, k - 2)
        /\ \A u \in 0 .. Max(x, 1) : Pow(u, k - 1) >= Pow(x, k - 2) => t <= u

\* k >= math.log(n, 2), for k >= 0 and n >= 1
k_ge_log2(k, n) == Pow(2, k) >= n

\* the caller's view of the copy when b starts: COLORS[nid] = color
initial_COLORS(g) == [v \in Live(g) |-> g.color[v]]

\* Algorithm b(k, graph, i, original).  COLORS is the module's dictionary
\* before the call.  Result: [g, dict, ret, err], dict the dictionary after.
\* The loop works on st = [g, dict, i, err].
RECURSIVE b(_, _, _, _, _)
RECURSIVE b_loop(_, _, _)

\* step 4: rd is the result of delta_coloring
b_finish(st, rd) ==
    [g |-> rd.g, dict |-> rd.dict, ret |-> st.i + rd.ret, err |-> rd.err]

\* step 3, the end of a turn: rb is the result of the recursive call
b_color(k, n, st, vertex, rb) ==
    IF rb.err # NoErr
    THEN [g |-> st.g, dict |-> rb.dict, ret |-> 0, err |-> rb.err]
    ELSE b_loop(k, n,
           [st EXCEPT !.g = delete_vertex([@ EXCEPT !.color[vertex] = st.i + rb.ret],
                                          vertex),
                      !.dict = put(rb.dict, vertex, st.i + rb.ret),
                      !.i = @ + rb.ret])

\* step 3, the recursive call on sg.sub, the subgraph of the neighbourhood
b_recurse(k, n, st, vertex, sg) ==
    IF sg.err # NoErr
    THEN [g |-> sg.g, dict |-> st.dict, ret |-> 0, err |-> sg.err]
    ELSE b_color(k, n, [st EXCEPT !.g = sg.g], vertex,
                 b(k - 1, sg.sub, st.i, FALSE, st.dict))

\* step 3, a vertex of maximum degree was chosen with result mv
b_reduce(k, n, st, mv) ==
    IF mv.err # NoErr
    THEN [g |-> mv.g, dict |-> st.dict, ret |-> 0, err |-> mv.err]
    ELSE b_recurse(k, n, st, mv.ret, subgraph(mv.g, mv.ret))

\* the while condition: md is the result of get_max_degree, then f_k(k, n)
\* is computed, which divides by k - 1
b_while(k, n, st, md) ==
    IF md.err # NoErr
    THEN [g |-> md.g, dict |-> st.dict, ret |-> 0, err |-> md.err]
    ELSE IF k = 1
    THEN [g |-> md.g, dict |-> st.dict, ret |-> 0, err |-> "ZeroDivisionError"]
    ELSE IF md.ret >= ceil_f_k(k, n)
    THEN b_reduce(k, n, st, get_max_degree_vertex(md.g))
    ELSE b_finish(st, delta_coloring(md.g, st.dict, st.i))

b_loop(k, n, st) == b_while(k, n, st, get_max_degree(st.g))

\* step 2 for k = 2: r is the result of bfs
b_two(r) ==
    [g |-> r.g, dict |-> r.dict, ret |-> 2,
     err |-> IF r.err # NoErr THEN r.err
             ELSE IF r.ok THEN NoErr ELSE "RuntimeError"]

\* steps 1 to 4 once COLORS is prepared
b_steps(k, graph, i, dict) ==
    IF k = 2 THEN b_two(bfs(graph, dict, i))
    ELSE IF Len(graph.vertices) = 0
    THEN [g |-> graph, dict |-> dict, ret |-> 0, err |-> "ValueError"]  \* log(0)
    ELSE IF k_ge_log2(k, Len(graph.vertices)) THEN sequential_coloring(graph, dict, i)
    ELSE b_loop(k, Len(graph.vertices),
                [g |-> graph, dict |-> dict, i |-> i, err |-> NoErr])

b(k, graph, i, original, COLORS) ==
    b_steps(k, graph, i, IF original THEN initial_COLORS(graph) ELSE COLORS)

\* the highest Node.color of the vertices left in a graph (c's last loop)
max_vertex_color(g) == max_value([v \in Live(g) |-> g.color[v]])

\* Algorithm c: one trial, b with k colours on a fresh copy of the graph
c_trial(graph, k, COLORS) == b(k, deepcopy(graph), 1, TRUE, COLORS)

\* first loop: k = 2 ^ exponent until a trial succeeds; r is the result of
\* the trial with this exponent.  Result: [exponent, r].
RECURSIVE c_double(_, _, _)
c_doubled(graph, exponent, r) ==
    IF r.err = "RuntimeError" THEN c_double(graph, exponent + 1, r.dict)
    ELSE [exponent |-> exponent, r |-> r]

c_double(graph, exponent, COLORS) ==
    c_doubled(graph, exponent, c_trial(graph, Pow(2, exponent), COLORS))

\* second loop: binary search; r is the result of the trial with 'middle'.
\* Result: [lower, upper, r], r the result of the last trial made.
RECURSIVE c_search(_, _, _, _)
c_searched(graph, lower, upper, middle, r) ==
    IF r.err = "RuntimeError" THEN c_search(graph, middle, upper, r)
    ELSE IF r.err # NoErr THEN [lower |-> lower, upper |-> upper, r |-> r]
    ELSE c_search(graph, lower, middle, r)

c_search(graph, lower, upper, last) ==
    IF ~(upper - lower > 1) THEN [lower |-> lower, upper |-> upper, r |-> last]
    ELSE c_searched(graph, lower, upper, (lower + upper) \div 2,
                    c_trial(graph, (lower + upper) \div 2, last.dict))

\* the result of c after its last trial rf, made with k colours: max_color is
\* taken from the vertices left in copy_graph.  Result: [ret, COLORS, k, err].
c_result(k, rf) ==
    [ret |-> IF rf.err = NoErr THEN max_vertex_color(rf.g) ELSE 0,
     COLORS |-> rf.dict, k |-> k, err |-> rf.err]

\* the graph is coloured with k0: r1 is the result of the trial with lower
c_lower(graph, s, r1) ==
    IF r1.err = "RuntimeError"
    THEN c_result(s.upper, c_trial(graph, s.upper, r1.dict))
    ELSE c_result(s.lower, r1)

\* s is the result of the binary search
c_color(graph, s) ==
    IF s.r.err \notin {NoErr, "RuntimeError"} THEN c_result(s.lower, s.r)
    ELSE c_lower(graph, s, c_trial(graph, s.lower, s.r.dict))

\* d1 is the result of the first loop
c_bounds(graph, d1) ==
    IF d1.r.err # NoErr THEN c_result(Pow(2, d1.exponent), d1.r)
    ELSE c_color(graph, c_search(graph, Pow(2, d1.exponent - 1),
                                 Pow(2, d1.exponent), d1.r))

\* Algorithm c(graph).  Result: [ret, COLORS, k, err]: the returned number, the
\* module dictionary afterwards, and the k of the last call of b.
c(graph, COLORS) == c_bounds(graph, c_double(graph, 1, COLORS))

\* graph.degrees.buckets[len(vertex)].data.remove(nid) and then
\* graph.delete_vertex(nid), as d does.  Result: [g, err].
bucket_remove(g, nid) ==
    IF ~g.degrees.built \/ ~contains(g.degrees.buckets, len(g, nid))
    THEN [g |-> g, err |-> "AttributeError"]
    ELSE [g |-> delete_vertex([g EXCEPT !.degrees.data[len(g, nid)] = remove(@, nid)],
                              nid),
          err |-> NoErr]

\* r is the result of a step on a graph: the next step, unless that one failed
then_decrease(r, nid) == IF r.err # NoErr THEN r ELSE decrease(r.g, nid)
then_delete_edge(r, endA, endB) ==
    IF r.err # NoErr THEN r ELSE delete_edge(r.g, endA, endB)

\* the callers' idiom for deleting an edge of an indexed graph:
\* degrees.decrease(first); degrees.decrease(second); delete_edge(endA, endB).
\* Result: [g, err].
decrease_and_delete(g, first, second, endA, endB) ==
    then_delete_edge(then_decrease(decrease(g, first), second), endA, endB)

\* d works on st = [cg, un, dict, i, t, err]: copy_graph, uncolored, the
\* dictionary, the colour in use, the number of random choices made.
\* r is the result of a step on uncolored, or on copy_graph.
on_uncolored(st, r) == [st EXCEPT !.un = r.g, !.err = r.err]
on_copy_graph(st, r) == [st EXCEPT !.cg = r.g, !.err = r.err]

\* d, innermost loop: the edges of 'neighbor' are deleted from uncolored
RECURSIVE d_other_neighbors(_, _, _, _)
d_other_neighbors(st, neighbor, others, j) ==
    IF st.err # NoErr \/ j > Len(others) THEN st
    ELSE d_other_neighbors(
           on_uncolored(st, decrease_and_delete(st.un, neighbor, others[j],
                                                neighbor, others[j])),
           neighbor, others, j + 1)

\* the edge with the neighbour is deleted from copy_graph
d_copy_edge(st, vertex, neighbor) ==
    IF st.err # NoErr THEN st
    ELSE on_copy_graph(st, decrease_and_delete(st.cg, vertex, neighbor,
                                               vertex, neighbor))

\* a vertex leaves uncolored, or copy_graph
d_delete_uncolored(st, nid) ==
    IF st.err # NoErr THEN st ELSE on_uncolored(st, bucket_remove(st.un, nid))
d_delete_copy(st, nid) ==
    IF st.err # NoErr THEN st ELSE on_copy_graph(st, bucket_remove(st.cg, nid))

\* d, loop over the neighbours of the coloured vertex
RECURSIVE d_neighbors(_, _, _, _)
d_neighbors(st, vertex, nbs, j) ==
    IF st.err # NoErr \/ j > Len(nbs) THEN st
    ELSE d_neighbors(
           d_delete_uncolored(
             d_copy_edge(d_other_neighbors(st, nbs[j], st.un.data[nbs[j]], 1),
                         vertex, nbs[j]),
             nbs[j]),
           vertex, nbs, j + 1)

\* d, last loop: the edges the coloured vertex still has in copy_graph
RECURSIVE d_remaining(_, _, _, _)
d_remaining(st, vertex, nbs, j) ==
    IF st.err # NoErr \/ j > Len(nbs) THEN st
    ELSE d_remaining(
           on_copy_graph(st, decrease_and_delete(st.cg, nbs[j], vertex,
                                                 vertex, nbs[j])),
           vertex, nbs, j + 1)

d_remaining_edges(st, vertex) ==
    IF st.err # NoErr THEN st ELSE d_remaining(st, vertex, st.cg.data[vertex], 1)

\* one turn of d's inner while loop, for the chosen vertex
d_color_vertex(st, vertex) ==
    d_delete_copy(
      d_remaining_edges(
        d_delete_uncolored(
          d_neighbors([st EXCEPT !.dict = put(@, vertex, st.i)], vertex,
                      st.un.data[vertex], 1),
          vertex),
        vertex),
      vertex)

\* GRAPH.get_random_vertex(proposal): the vertices a proposal can return, in
\* the order it meets them.  Proposal 30 walks the buckets from the first and
\* takes any non-empty one; proposal 8 walks them from the last and takes a
\* non-empty one of positive degree; any other value (0, None) chooses among
\* the vertices of the graph.
RECURSIVE bucket_candidates(_, _, _)
bucket_candidates(D, ids, i) ==
    IF i > Len(ids) THEN <<>>
    ELSE D.data[ids[i]] \o bucket_candidates(D, ids, i + 1)

reversed(list) == [i \in 1 .. Len(list) |-> list[Len(list) + 1 - i]]

candidates(g, proposal) ==
    IF proposal = WINNER_PROPOSAL_D
    THEN bucket_candidates(g.degrees, g.degrees.buckets, 1)
    ELSE IF proposal = WINNER_PROPOSAL_C
    THEN bucket_candidates(g.degrees,
                           SelectSeq(reversed(g.degrees.buckets), LAMBDA x : x > 0), 1)
    ELSE g.vertices

\* 'picks' are the random draws, the t-th selection uses the t-th of them
\* (cyclically).  A proposal that finds no bucket to take walks the buckets
\* for ever: "NoReturn".  Result: [g, ret, err].
random_vertex(g, proposal, draw) ==
    IF proposal \in {WINNER_PROPOSAL_C, WINNER_PROPOSAL_D} /\ is_empty(g.degrees.buckets)
    THEN [g |-> g, ret |-> 0, err |-> "AttributeError"]      \* bucket is None
    ELSE IF proposal = WINNER_PROPOSAL_C /\ g.n = 0
    THEN [g |-> g, ret |-> 0, err |-> "ZeroDivisionError"]
    ELSE IF is_empty(candidates(g, proposal))
    THEN [g |-> g, ret |-> 0,
          err |-> IF proposal \in {WINNER_PROPOSAL_C, WINNER_PROPOSAL_D}
                  THEN "NoReturn" ELSE "IndexError"]
    ELSE [g |-> g,
          ret |-> candidates(g, proposal)[(draw % Len(candidates(g, proposal))) + 1],
          err |-> NoErr]

\* the first vertices of the buckets ids, in that order
RECURSIVE bucket_firsts(_, _, _)
bucket_firsts(D, ids, i) ==
    IF i > Len(ids) THEN <<>>
    ELSE <<D.data[ids[i]][1]>> \o bucket_firsts(D, ids, i + 1)

\* GRAPH.proposal_1: the buckets are walked from the first, each is taken
\* with probability nid * len(bucket) / (2 * n), and the first vertex of
\* the bucket taken is returned
proposal_1(g, draw, taken_from) ==
    IF is_empty(g.degrees.buckets)
    THEN [g |-> g, ret |-> 0, err |-> "AttributeError"]      \* bucket is None
    ELSE IF g.n = 0 THEN [g |-> g, ret |-> 0, err |-> "ZeroDivisionError"]
    ELSE IF is_empty(taken_from) THEN [g |-> g, ret |-> 0, err |-> "NoReturn"]
    ELSE [g |-> g, ret |-> bucket_firsts(g.degrees, taken_from, 1)[(draw % Len(taken_from)) + 1],
          err |-> NoErr]

\* GRAPH.proposal_21: the vertices are walked, each is taken with probability
\* len(vertex) / max_degree; md is the result of get_max_degree
proposal_21(md, draw, taken_from) ==
    IF md.err # NoErr THEN [g |-> md.g, ret |-> 0, err |-> md.err]
    ELSE IF is_empty(md.g.vertices) THEN [g |-> md.g, ret |-> 0, err |-> "NoReturn"]
    ELSE IF md.ret = 0 THEN [g |-> md.g, ret |-> 0, err |-> "ZeroDivisionError"]
    ELSE IF is_empty(taken_from) THEN [g |-> md.g, ret |-> 0, err |-> "NoReturn"]
    ELSE [g |-> md.g, ret |-> taken_from[(draw % Len(taken_from)) + 1], err |-> NoErr]

\* a walk along list that can stop at every element, and stops for certain
\* at the first one whose probability is 1
RECURSIVE walk(_, _, _)
walk(list, certain, i) ==
    IF i > Len(list) THEN <<>>
    ELSE IF certain[i] THEN <<list[i]>>
    ELSE <<list[i]>> \o walk(list, certain, i + 1)

walk_buckets(g, ids) ==
    walk(ids, [i \in 1 .. Len(ids) |-> ids[i] * Len(g.degrees.data[ids[i]]) >= 2 * g.n], 1)

walk_vertices(g, max_degree, vs) ==
    walk(vs, [i \in 1 .. Len(vs) |-> len(g, vs[i]) >= max_degree], 1)

\* get_random_vertex on a graph with its DEGREE, with the random number draw
proposed_vertex(g, proposal, draw) ==
    IF proposal = 1
    THEN proposal_1(g, draw,
                    walk_buckets(g, SelectSeq(g.degrees.buckets,
                        LAMBDA x : x > 0 /\ ~is_empty(g.degrees.data[x]))))
    ELSE IF proposal = 21
    THEN proposal_21(get_max_degree(g), draw,
                     walk_vertices(g, get_max_degree(g).ret,
                                   SelectSeq(g.vertices, LAMBDA v : len(g, v) > 0)))
    ELSE random_vertex(g, proposal, draw)

get_random_vertex(g0, proposal, picks, t) ==
    proposed_vertex(with_DEGREE(g0), proposal, picks[(t % Len(picks)) + 1])

\* the vertex to colour was selected with result sel
d_selected(st, sel) ==
    IF sel.err # NoErr THEN on_uncolored(st, sel)
    ELSE d_color_vertex([st EXCEPT !.un = sel.g, !.t = @ + 1], sel.ret)

\* d's inner while loop; random = FALSE is d, random = TRUE is sdr_d
RECURSIVE d_inner(_, _, _, _)
d_inner(st, random, proposal, picks) ==
    IF st.err # NoErr \/ is_empty(st.un.vertices) THEN st
    ELSE d_inner(d_selected(st, IF random THEN get_random_vertex(st.un, proposal, picks, st.t)
                                ELSE get_min_degree_vertex(st.un)),
                 random, proposal, picks)

\* a colour is finished
d_next_color(st) == IF st.err # NoErr THEN st ELSE [st EXCEPT !.i = @ + 1]

\* d's outer while loop: one colour per turn
RECURSIVE d_outer(_, _, _, _)
d_outer(st, random, proposal, picks) ==
    IF st.err # NoErr \/ is_empty(st.cg.vertices) THEN st
    ELSE d_outer(d_next_color(
                   d_inner([st EXCEPT !.un = build_DEGREE(deepcopy(st.cg))],
                           random, proposal, picks)),
                 random, proposal, picks)

\* d_return that reports the next colour instead of the last one used
d_return_next_color(st) ==
    [ret |-> st.i, dict |-> st.dict, t |-> st.t, err |-> st.err]

d_return(st) == [ret |-> st.i - 1, dict |-> st.dict, t |-> st.t, err |-> st.err]

d_run(graph, color_dict, random, proposal, picks, t) ==
    d_return(d_outer([cg |-> build_DEGREE(deepcopy(graph)), un |-> NewGRAPH,
                      dict |-> color_dict, i |-> 1, t |-> t, err |-> NoErr],
                     random, proposal, picks))

\* Algorithm d(graph, color_dict): color_dict is the dictionary the colours
\* go to (the fresh GREEDY_COLORS when the caller gives none).
\* Result: [ret, dict, t, err].
d(graph, color_dict) == d_run(graph, color_dict, FALSE, 0, <<0>>, 0)

\* Algorithm sdr_d(graph, color_dict, proposal, expd); t random choices were
\* made before the call.  Result: [ret, dict, t, err].
sdr_d(graph, color_dict, proposal, picks, t) == d_run(graph, color_dict, TRUE, proposal, picks, t)

\* Algorithm sdr_b(k, graph, i, color_dict, proposal, exp); t counts the random
\* choices made so far.  Result: [g, dict, ret, t, err].
\* The loop works on st = [g, dict, i, t, err].
RECURSIVE sdr_b(_, _, _, _, _, _, _)
RECURSIVE sdr_b_loop(_, _, _, _, _)

sdr_b_fail(st, g, error) ==
    [g |-> g, dict |-> st.dict, ret |-> 0, t |-> st.t, err |-> error]

\* step 4: rd is the result of delta_coloring
sdr_b_finish(st, rd) ==
    [g |-> rd.g, dict |-> rd.dict, ret |-> st.i + rd.ret, t |-> st.t, err |-> rd.err]

\* step 3, the end of a turn: rb is the result of the recursive call
sdr_b_color(k, n, st, proposal, picks, vertex, rb) ==
    IF rb.err # NoErr
    THEN [g |-> st.g, dict |-> rb.dict, ret |-> 0, t |-> rb.t, err |-> rb.err]
    ELSE sdr_b_loop(k, n,
           [st EXCEPT !.g = delete_vertex([@ EXCEPT !.color[vertex] = st.i + rb.ret],
                                          vertex),
                      !.dict = put(rb.dict, vertex, st.i + rb.ret),
                      !.i = @ + rb.ret,
                      !.t = rb.t],
           proposal, picks)

\* step 3, the recursive call on sg.sub, the subgraph of the neighbourhood
sdr_b_recurse(k, n, st, proposal, picks, vertex, sg) ==
    IF sg.err # NoErr THEN sdr_b_fail(st, sg.g, sg.err)
    ELSE sdr_b_color(k, n, [st EXCEPT !.g = sg.g], proposal, picks, vertex,
                     sdr_b(k - 1, sg.sub, st.i, st.dict, proposal, picks, st.t))

\* step 3, a random vertex was chosen with result rv
sdr_b_reduce(k, n, st, proposal, picks, rv) ==
    IF rv.err # NoErr THEN sdr_b_fail(st, rv.g, rv.err)
    ELSE sdr_b_recurse(k, n, [st EXCEPT !.t = @ + 1], proposal, picks, rv.ret,
                       subgraph(rv.g, rv.ret))

\* the while condition: md is the result of get_max_degree
sdr_b_while(k, n, st, proposal, picks, md) ==
    IF md.err # NoErr THEN sdr_b_fail(st, md.g, md.err)
    ELSE IF k = 1 THEN sdr_b_fail(st, md.g, "ZeroDivisionError")
    ELSE IF md.ret >= ceil_f_k(k, n)
    THEN sdr_b_reduce(k, n, st, proposal, picks, get_random_vertex(md.g, proposal, picks, st.t))
    ELSE sdr_b_finish(st, delta_coloring(md.g, st.dict, st.i))

sdr_b_loop(k, n, st, proposal, picks) == sdr_b_while(k, n, st, proposal, picks, get_max_degree(st.g))

\* step 2 for k = 2: r is the result of bfs
sdr_b_two(r, t) ==
    [g |-> r.g, dict |-> r.dict, ret |-> 2, t |-> t,
     err |-> IF r.err # NoErr THEN r.err
             ELSE IF r.ok THEN NoErr ELSE "RuntimeError"]

\* r is the result of sequential_coloring
sdr_b_sequential(r, t) ==
    [g |-> r.g, dict |-> r.dict, ret |-> r.ret, t |-> t, err |-> r.err]

sdr_b(k, graph, i, color_dict, proposal, picks, t) ==
    IF graph.m = 0
    THEN [g |-> graph, dict |-> color_dict, ret |-> 0, t |-> t, err |-> NoErr]
    ELSE IF k = 2 THEN sdr_b_two(bfs(graph, color_dict, i), t)
    ELSE IF k_ge_log2(k, graph.m)
    THEN sdr_b_sequential(sequential_coloring(graph, color_dict, i), t)
    ELSE sdr_b_loop(k, graph.m,
                    [g |-> graph, dict |-> color_dict, i |-> i, t |-> t,
                     err |-> NoErr],
                    proposal, picks)

\* Algorithm sdir_c: one trial, sdr_b with k colours on a fresh copy; last is
\* the result of the trial before, whose dictionary is written on
sdir_c_trial(graph, k, last, proposal, picks) ==
    sdr_b(k, deepcopy(graph), 1, last.dict, proposal, picks, last.t)

\* first loop.  Result: [exponent, r].
RECURSIVE sdir_c_double(_, _, _, _, _)
sdir_c_doubled(graph, exponent, r, proposal, picks) ==
    IF r.err = "RuntimeError" THEN sdir_c_double(graph, exponent + 1, r, proposal, picks)
    ELSE [exponent |-> exponent, r |-> r]

sdir_c_double(graph, exponent, last, proposal, picks) ==
    sdir_c_doubled(graph, exponent,
                   sdir_c_trial(graph, Pow(2, exponent), last, proposal, picks), proposal, picks)

\* binary search.  Result: [lower, upper, r].
RECURSIVE sdir_c_search(_, _, _, _, _, _)
sdir_c_searched(graph, lower, upper, middle, r, proposal, picks) ==
    IF r.err = "RuntimeError" THEN sdir_c_search(graph, middle, upper, r, proposal, picks)
    ELSE IF r.err # NoErr THEN [lower |-> lower, upper |-> upper, r |-> r]
    ELSE sdir_c_search(graph, lower, middle, r, proposal, picks)

sdir_c_search(graph, lower, upper, last, proposal, picks) ==
    IF ~(upper - lower > 1) THEN [lower |-> lower, upper |-> upper, r |-> last]
    ELSE sdir_c_searched(graph, lower, upper, (lower + upper) \div 2,
                         sdir_c_trial(graph, (lower + upper) \div 2, last, proposal, picks),
                         proposal, picks)

\* last loop: at most MAX_ITER turns, each tries lower and then upper.
\* Result: [colored, count, r].
RECURSIVE sdir_c_retry(_, _, _, _, _, _, _)
sdir_c_upper(graph, lower, upper, r2, proposal, picks, count) ==
    IF r2.err = "RuntimeError"
    THEN sdir_c_retry(graph, lower, upper, r2, proposal, picks, count + 1)
    ELSE [colored |-> r2.err = NoErr, count |-> count, r |-> r2]

sdir_c_lower(graph, lower, upper, r1, proposal, picks, count) ==
    IF r1.err = "RuntimeError"
    THEN sdir_c_upper(graph, lower, upper,
                      sdir_c_trial(graph, upper, r1, proposal, picks), proposal, picks, count)
    ELSE [colored |-> r1.err = NoErr, count |-> count, r |-> r1]

sdir_c_retry(graph, lower, upper, last, proposal, picks, count) ==
    IF ~(count < MAX_ITER) THEN [colored |-> FALSE, count |-> count, r |-> last]
    ELSE sdir_c_lower(graph, lower, upper,
                      sdir_c_trial(graph, lower, last, proposal, picks), proposal, picks, count)

\* sdir_c_result that returns the colours of the last trial when no turn
\* succeeded
sdir_c_result_never_raises(f) ==
    [ret |-> max_value(f.r.dict), dict |-> f.r.dict, count |-> f.count,
     t |-> f.r.t, err |-> IF f.r.err = "RuntimeError" THEN NoErr ELSE f.r.err]

\* f is the result of the last loop.  Result: [ret, dict, count, t, err].
sdir_c_result(f) ==
    [ret |-> IF f.colored THEN max_value(f.r.dict) ELSE 0,
     dict |-> f.r.dict, count |-> f.count, t |-> f.r.t,
     err |-> IF f.colored THEN NoErr
             ELSE IF f.r.err = NoErr THEN "RuntimeError" ELSE f.r.err]

\* s is the result of the binary search
sdir_c_color(graph, s, proposal, picks) ==
    IF s.r.err \notin {NoErr, "RuntimeError"}
    THEN sdir_c_result([colored |-> FALSE, count |-> 0, r |-> s.r])
    ELSE sdir_c_result(sdir_c_retry(graph, s.lower, s.upper, s.r, proposal, picks, 0))

\* d1 is the result of the first loop
sdir_c_bounds(graph, d1, proposal, picks) ==
    IF d1.r.err # NoErr
    THEN sdir_c_result([colored |-> FALSE, count |-> 0, r |-> d1.r])
    ELSE sdir_c_color(graph, sdir_c_search(graph, Pow(2, d1.exponent - 1),
                                           Pow(2, d1.exponent), d1.r, proposal, picks),
                      proposal, picks)

\* Algorithm sdir_c(graph, color_dict, proposal, expc); t random choices were
\* made before the call.  Result: [ret, dict, count, t, err].
sdir_c(graph, color_dict, proposal, picks, t) ==
    sdir_c_bounds(graph,
                  sdir_c_double(graph, 1, [dict |-> color_dict, t |-> t], proposal, picks),
                  proposal, picks)

\* GRAPH.set_seed(seed): random.seed(seed) restarts the stream of the seed
set_seed_keeps_position(random, seed) == [picks |-> seed, t |-> random.t]

set_seed(random, seed) == [picks |-> seed, t |-> 0]

\* Algorithm sdfr_c: one trial, sdr_b with k colours on a fresh copy of the
\* graph, after copy_graph.set_seed(seed); the seed stands for its stream
sdfr_c_trial(graph, k, last, proposal, seed) ==
    sdr_b(k, deepcopy(graph), 1, last.dict, proposal,
          set_seed([picks |-> seed, t |-> last.t], seed).picks,
          set_seed([picks |-> seed, t |-> last.t], seed).t)

\* first loop.  Result: [exponent, r].
RECURSIVE sdfr_c_double(_, _, _, _, _)
sdfr_c_doubled(graph, exponent, r, proposal, seed) ==
    IF r.err = "RuntimeError" THEN sdfr_c_double(graph, exponent + 1, r, proposal, seed)
    ELSE [exponent |-> exponent, r |-> r]

sdfr_c_double(graph, exponent, last, proposal, seed) ==
    sdfr_c_doubled(graph, exponent,
                   sdfr_c_trial(graph, Pow(2, exponent), last, proposal, seed), proposal, seed)

\* binary search.  Result: [lower, upper, r].
RECURSIVE sdfr_c_search(_, _, _, _, _, _)
sdfr_c_searched(graph, lower, upper, middle, r, proposal, seed) ==
    IF r.err = "RuntimeError" THEN sdfr_c_search(graph, middle, upper, r, proposal, seed)
    ELSE IF r.err # NoErr THEN [lower |-> lower, upper |-> upper, r |-> r]
    ELSE sdfr_c_search(graph, lower, middle, r, proposal, seed)

sdfr_c_search(graph, lower, upper, last, proposal, seed) ==
    IF ~(upper - lower > 1) THEN [lower |-> lower, upper |-> upper, r |-> last]
    ELSE sdfr_c_searched(graph, lower, upper, (lower + upper) \div 2,
                         sdfr_c_trial(graph, (lower + upper) \div 2, last, proposal, seed),
                         proposal, seed)

\* the end of sdfr_c after its last trial rf, made with k colours: color is
\* called with the graph alone, without its second argument.
\* Result: [ret, dict, k, trial, err], trial the error of the last trial.
sdfr_c_result(k, rf) ==
    [ret |-> 0, dict |-> rf.dict, k |-> k, trial |-> rf.err,
     err |-> IF rf.err = NoErr THEN "TypeError" ELSE rf.err]

\* the graph is coloured with k0: r1 is the result of the trial with lower
sdfr_c_lower(graph, s, r1, proposal, seed) ==
    IF r1.err = "RuntimeError"
    THEN sdfr_c_result(s.upper, sdfr_c_trial(graph, s.upper, r1, proposal, seed))
    ELSE sdfr_c_result(s.lower, r1)

\* s is the result of the binary search
sdfr_c_color(graph, s, proposal, seed) ==
    IF s.r.err \notin {NoErr, "RuntimeError"} THEN sdfr_c_result(s.lower, s.r)
    ELSE sdfr_c_lower(graph, s, sdfr_c_trial(graph, s.lower, s.r, proposal, seed),
                      proposal, seed)

\* d1 is the result of the first loop
sdfr_c_bounds(graph, d1, proposal, seed) ==
    IF d1.r.err # NoErr THEN sdfr_c_result(Pow(2, d1.exponent), d1.r)
    ELSE sdfr_c_color(graph, sdfr_c_search(graph, Pow(2, d1.exponent - 1),
                                           Pow(2, d1.exponent), d1.r, proposal, seed),
                      proposal, seed)

\* Algorithm sdfr_c(graph, color_dict, proposal, seed, expc); t random
\* choices were made before the call.  Result: [ret, dict, k, trial, err].
sdfr_c(graph, color_dict, proposal, seed, t) ==
    sdfr_c_bounds(graph,
                  sdfr_c_double(graph, 1, [dict |-> color_dict, t |-> t], proposal, seed),
                  proposal, seed)

\* Algorithm sdr_c(graph, color_dict, iterated, proposal, seed, expc).
\* Result: [ret, dict, k, trial, err]; k and trial are not kept for sdir_c.
sdr_c(graph, color_dict, iterated, proposal, seed, t) ==
    IF iterated
    THEN [ret |-> sdir_c(graph, color_dict, proposal, seed, t).ret,
          dict |-> sdir_c(graph, color_dict, proposal, seed, t).dict,
          k |-> 0, trial |-> NoErr,
          err |-> sdir_c(graph, color_dict, proposal, seed, t).err]
    ELSE sdfr_c(graph, color_dict, proposal, seed, t)

\* color(graph, colors_dict).  Result: [g, err].
color(graph, colors_dict) ==
    IF DOMAIN colors_dict \subseteq Live(graph)
    THEN [g |-> [graph EXCEPT !.color = [v \in VID |->
                    IF v \in DOMAIN colors_dict THEN colors_dict[v] ELSE @[v]]],
          err |-> NoErr]
    ELSE [g |-> graph, err |-> "AttributeError"]

\* e_min that hands the caller an emptied graph, as if the trials had been
\* made on the caller's graph itself
e_min_consumed(graph, GREEDY_COLORS, rc, rd) ==
    [ret |-> IF rc.err # NoErr THEN 0 ELSE Min(rc.ret, rd.ret), g |-> NewGRAPH,
     COLORS |-> rc.COLORS,
     GREEDY_COLORS |-> IF rc.err # NoErr THEN GREEDY_COLORS ELSE rd.dict,
     rec |-> IF rc.err # NoErr THEN 0 ELSE rc.ret,
     greedy |-> IF rc.err # NoErr THEN 0 ELSE rd.ret,
     err |-> IF rc.err # NoErr THEN rc.err ELSE rd.err]

\* Algorithm e(graph): rc and rd are the results of c and d.
\* Result: [ret, g, COLORS, GREEDY_COLORS, rec, greedy, err]; g is the caller's
\* graph afterwards, rec and greedy the numbers c and d returned.
e_min(graph, GREEDY_COLORS, rc, rd) ==
    IF rc.err # NoErr
    THEN [ret |-> 0, g |-> graph, COLORS |-> rc.COLORS,
          GREEDY_COLORS |-> GREEDY_COLORS, rec |-> 0, greedy |-> 0,
          err |-> rc.err]
    ELSE [ret |-> Min(rc.ret, rd.ret), g |-> graph, COLORS |-> rc.COLORS,
          GREEDY_COLORS |-> rd.dict, rec |-> rc.ret, greedy |-> rd.ret,
          err |-> rd.err]

e(graph, COLORS, GREEDY_COLORS) ==
    e_min(graph, GREEDY_COLORS, c(graph, COLORS), d(graph, <<>>))

\* Algorithm sdr_e(graph) in iterated mode: rc and rd are the results of sdr_c
\* and sdr_d.  After both it calls color with three arguments, which color
\* does not take.  Result: [ret, g, rdict, gdict, rec, greedy, err].
sdr_e_min(graph, rc, rd) ==
    IF rd.err # NoErr
    THEN [ret |-> 0, g |-> graph, rdict |-> rc.dict, gdict |-> rd.dict,
          rec |-> rc.ret, greedy |-> 0, err |-> rd.err]
    ELSE [ret |-> Min(rc.ret, rd.ret), g |-> graph, rdict |-> rc.dict,
          gdict |-> rd.dict, rec |-> rc.ret, greedy |-> rd.ret,
          err |-> "TypeError"]

sdr_e_greedy(graph, rc, picks) ==
    IF rc.err # NoErr
    THEN [ret |-> 0, g |-> graph, rdict |-> rc.dict, gdict |-> <<>>,
          rec |-> 0, greedy |-> 0, err |-> rc.err]
    ELSE sdr_e_min(graph, rc, sdr_d(graph, <<>>, WINNER_PROPOSAL_D, picks, rc.t))

sdr_e(graph, picks) ==
    sdr_e_greedy(graph, sdir_c(graph, <<>>, WINNER_PROPOSAL_C, picks, 0), picks)

\* Algorithm sdr_widgerson(graph, expc, expd): gr, sg and sr are the results
\* of d, sdr_d and sdr_c; a RuntimeError of sdr_c counts as 2 ** 63 colours.
\* Result: [ret, g, dict, rec, greedy, err]; dict is the winning dictionary.
sdr_widgerson_fail(graph, error) ==
    [ret |-> 0, g |-> graph, dict |-> <<>>, rec |-> 0, greedy |-> 0, err |-> error]

\* cl is the result of color
sdr_widgerson_colored(winner, dict, rec, greedy, cl) ==
    [ret |-> winner, g |-> cl.g, dict |-> dict, rec |-> rec, greedy |-> greedy,
     err |-> cl.err]

sdr_widgerson_color(graph, winner, dict, rec, greedy) ==
    sdr_widgerson_colored(winner, dict, rec, greedy, color(graph, dict))

sdr_widgerson_winner(graph, gr, sg, sr, rec) ==
    sdr_widgerson_color(graph, Min(gr.ret, Min(rec, sg.ret)),
        IF Min(gr.ret, Min(rec, sg.ret)) = gr.ret THEN gr.dict
        ELSE IF Min(gr.ret, Min(rec, sg.ret)) = rec THEN sr.dict
        ELSE sg.dict,
        rec, gr.ret)

sdr_widgerson_recursive(graph, gr, sg, sr) ==
    IF sr.err \notin {NoErr, "RuntimeError"} THEN sdr_widgerson_fail(graph, sr.err)
    ELSE sdr_widgerson_winner(graph, gr, sg, sr,
                              IF sr.err = "RuntimeError" THEN SENTINEL ELSE sr.ret)

sdr_widgerson_sdr_greedy(graph, gr, sg, picks) ==
    IF sg.err # NoErr THEN sdr_widgerson_fail(graph, sg.err)
    ELSE sdr_widgerson_recursive(graph, gr, sg, sdir_c(graph, <<>>, 0, picks, sg.t))

sdr_widgerson_greedy(graph, gr, picks) ==
    IF gr.err # NoErr THEN sdr_widgerson_fail(graph, gr.err)
    ELSE sdr_widgerson_sdr_greedy(graph, gr, sdr_d(graph, <<>>, WINNER_PROPOSAL_D, picks, 0), picks)

sdr_widgerson(graph, picks) == sdr_widgerson_greedy(graph, d(graph, <<>>), picks)

\* ---------------------------------------------------------------- inputs
\* from_dimacs: the vertices 1 .. n are added, then the edges in file order
\* (here: sorted by first and then second endpoint).
RECURSIVE from_dimacs_vertices(_, _, _)
from_dimacs_vertices(gr, n, i) ==
    IF Evaluated(gr) /\ i > n THEN gr ELSE from_dimacs_vertices(add_vertex(gr, i), n, i + 1)

RECURSIVE from_dimacs_edges(_, _, _, _, _)
from_dimacs_edges(gr, n, E, ea, eb) ==
    IF Evaluated(gr) /\ ea > n THEN gr
    ELSE IF eb > n THEN from_dimacs_edges(gr, n, E, ea + 1, ea + 2)
    ELSE from_dimacs_edges(IF <<ea, eb>> \in E THEN add_edge(gr, ea, eb) ELSE gr,
                           n, E, ea, eb + 1)

from_dimacs(n, E) ==
    from_dimacs_edges(from_dimacs_vertices(NewGRAPH, n, 1), n, E, 1, 2)

Pairs(n) == {<<ea, eb>> \in (1 .. n) \X (1 .. n) : ea < eb}

\* The nine-vertex family: two hubs (1 and 6) and a choice of further edges.
BaseEdges == {<<1, 2>>, <<1, 3>>, <<1, 4>>, <<1, 5>>, <<6, 7>>, <<6, 8>>}
Pool == <<  <<2, 3>>, <<6, 9>>, <<7, 8>>, <<3, 4>>, <<2, 4>>, <<5, 6>>,
            <<8, 9>>, <<5, 7>>  >>
PoolEdges == {Pool[i] : i \in 1 .. Min(PoolSize, Len(Pool))}

SmallInputs == UNION {{[n |-> n, E |-> E] : E \in SUBSET Pairs(n)} : n \in 1 .. MaxN}
BigInputs   == {[n |-> BigN, E |-> BaseEdges \cup T] : T \in SUBSET PoolEdges}
Inputs      == SmallInputs \cup BigInputs

PickSeqs == [1 .. 2 -> 0 .. MaxPick] \cup [1 .. MaxDraws -> 0 .. 1]

\* the proposals the callers pass: the default of each algorithm, and none
Proposals_c == {0, WINNER_PROPOSAL_C}
Proposals_d == {0, WINNER_PROPOSAL_D}

StoreInputs == {in \in SmallInputs : in.n <= StoreN}

\* ----------------------------------------------------------------- state
VARIABLES
    input,          \* the file the caller's graph was read from: [n, E]
    store,          \* the caller's GRAPH object
    globalCOLORS,   \* algorithms.COLORS
    globalGREEDY,   \* algorithms.GREEDY_COLORS
    taken,          \* the GRAPH the last subgraph call returned
    last,           \* the last call: [op, a, b, picks]
    out,            \* what it gave: [ret, err, dict, rec, greedy]
    ops,            \* number of calls made on the store
    callers,        \* the frame of every caller that runs a routine step by step
    tables          \* the dict objects made so far, and the ones the module
                    \* names COLORS and GREEDY_COLORS are bound to (0: None);
                    \* random: the generator of module random, the stream
                    \* of its seed and the number of draws made from it

vars == <<input, store, globalCOLORS, globalGREEDY, taken, last, out, ops,
          callers, tables>>

NoCall == [op |-> "none", a |-> 0, b |-> 0, picks |-> <<>>]
NoOut  == [ret |-> 0, err |-> NoErr, dict |-> <<>>, rec |-> 0, greedy |-> 0]

Callers == 1 .. 2
NoFrame == [routine |-> "none", pc |-> "idle", g |-> NewGRAPH, i |-> 0, ref |-> 0,
            st |-> <<>>, ret |-> 0, err |-> NoErr, dict |-> <<>>]
NoTables == [objs |-> <<>>, COLORS |-> 0, GREEDY_COLORS |-> 0,
             random |-> [picks |-> <<0>>, t |-> 0]]

Start(ins) ==
    /\ input \in ins
    /\ store = from_dimacs(input.n, input.E)
    /\ globalCOLORS = <<>>
    /\ globalGREEDY = <<>>
    /\ taken = NewGRAPH
    /\ last = NoCall
    /\ out = NoOut
    /\ ops = 0
    /\ callers = [p \in Callers |-> NoFrame]
    /\ tables = NoTables

\* ------------------------------------------ the algorithms, one call each
InitAlg == Start(Inputs)

Idle == last.op = "none"

Call_b ==
    /\ Idle
    /\ \E k \in 2 .. MaxK, i \in 0 .. MaxStart :
         \E r \in {b(k, store, i, TRUE, globalCOLORS)} :
             /\ store' = r.g
             /\ globalCOLORS' = r.dict
             /\ last' = [NoCall EXCEPT !.op = "b", !.a = k, !.b = i]
             /\ out' = [NoOut EXCEPT !.ret = r.ret, !.err = r.err, !.dict = r.dict]
    /\ UNCHANGED <<callers, tables, input, globalGREEDY, taken, ops>>

Call_c ==
    /\ Idle
    /\ \E r \in {c(store, globalCOLORS)} :
           /\ globalCOLORS' = r.COLORS
           /\ last' = [NoCall EXCEPT !.op = "c", !.a = r.k]
           /\ out' = [NoOut EXCEPT !.ret = r.ret, !.err = r.err, !.dict = r.COLORS]
    /\ UNCHANGED <<callers, tables, input, store, globalGREEDY, taken, ops>>

Call_d ==
    /\ Idle
    /\ \E r \in {d(store, <<>>)} :
           /\ globalGREEDY' = r.dict
           /\ last' = [NoCall EXCEPT !.op = "d"]
           /\ out' = [NoOut EXCEPT !.ret = r.ret, !.err = r.err, !.dict = r.dict]
    /\ UNCHANGED <<callers, tables, input, store, globalCOLORS, taken, ops>>

Call_e ==
    /\ Idle
    /\ \E r \in {e(store, globalCOLORS, globalGREEDY)} :
           /\ store' = r.g
           /\ globalCOLORS' = r.COLORS
           /\ globalGREEDY' = r.GREEDY_COLORS
           /\ last' = [NoCall EXCEPT !.op = "e"]
           /\ out' = [NoOut EXCEPT !.ret = r.ret, !.err = r.err,
                                   !.rec = r.rec, !.greedy = r.greedy]
    /\ UNCHANGED <<callers, tables, input, taken, ops>>

Call_sdr_d ==
    /\ Idle
    /\ \E picks \in PickSeqs, proposal \in Proposals_d :
         \E r \in {sdr_d(store, <<>>, proposal, picks, 0)} :
             /\ last' = [NoCall EXCEPT !.op = "sdr_d", !.a = proposal, !.picks = picks]
             /\ out' = [NoOut EXCEPT !.ret = r.ret, !.err = r.err, !.dict = r.dict]
    /\ UNCHANGED <<callers, tables, input, store, globalCOLORS, globalGREEDY, taken, ops>>

\* the proposals of get_random_vertex that are modelled: uniform choice, the
\* bucket walks 1, 8 and 30, and the vertex walk 21
Proposals == {0, 1, WINNER_PROPOSAL_C, 21, WINNER_PROPOSAL_D}

Pick_get_random_vertex ==
    /\ Idle
    /\ \E picks \in PickSeqs, proposal \in Proposals :
         \E r \in {get_random_vertex(store, proposal, picks, 0)} :
             /\ store' = r.g
             /\ last' = [NoCall EXCEPT !.op = "get_random_vertex", !.a = proposal,
                                      !.picks = picks]
             /\ out' = [NoOut EXCEPT !.ret = r.ret, !.err = r.err]
    /\ UNCHANGED <<callers, tables, input, globalCOLORS, globalGREEDY, taken, ops>>

Pick_sdr_d ==
    /\ Idle
    /\ \E picks \in PickSeqs, proposal \in Proposals :
         \E r \in {sdr_d(store, <<>>, proposal, picks, 0)} :
             /\ last' = [NoCall EXCEPT !.op = "sdr_d", !.a = proposal, !.picks = picks]
             /\ out' = [NoOut EXCEPT !.ret = r.ret, !.err = r.err, !.dict = r.dict]
    /\ UNCHANGED <<callers, tables, input, store, globalCOLORS, globalGREEDY, taken, ops>>

\* ------------------------------------------------------------------ PSO
\* PSO.run with its particle threads.  callers[0] is the thread of run:
\* pc, i (self.iteration), ref (self.leader, -1 before a leader is found),
\* st = [next, scan], the particle the for loop starts next and the particle
\* is_synchronized reads next.  callers[p], p in 1 .. Particles, is a
\* particle (population[p - 1]): g (graph), ret (current_fitness), ref
\* (best_fitness), dict (the colours of best_coloring) and st = [sync,
\* threads], threads[k] the position of the thread that iteration k started
\* on the particle.  The values and velocities of a particle are left out.
Particles == 3            \* the particles of the population
Rounds == 2               \* the iterations of run
DESIRED_MINIMUM == 3

PSOInputs == {[n |-> 4, E |-> Pairs(4)], [n |-> 3, E |-> {}], [n |-> 2, E |-> {<<1, 2>>}]}

\* A fitness is kept as what it was computed from: "unset" is -(2 ** 63),
\* "failed" is 1 / (2 ** 63), "colored" is 1.0 / colors.
unset == [kind |-> "unset", colors |-> 0]
failed == [kind |-> "failed", colors |-> 0]
colored(colors) == [kind |-> "colored", colors |-> colors]

level(kind) == IF kind = "colored" THEN 2 ELSE IF kind = "failed" THEN 1 ELSE 0

\* fa > fb
greater(fa, fb) ==
    IF fa.kind = "colored" /\ fb.kind = "colored" THEN fa.colors < fb.colors
    ELSE level(fa.kind) > level(fb.kind)

\* 1.0 / fitness <= DESIRED_MINIMUM
desired(fitness) ==
    IF fitness.kind = "colored" THEN fitness.colors <= DESIRED_MINIMUM
    ELSE fitness.kind = "unset"

NoThreads == [k \in 1 .. Rounds |-> "none"]

\* Particle.__init__ and p.graph = copy.deepcopy(graph)
Particle(graph) ==
    [NoFrame EXCEPT !.routine = "particle", !.g = deepcopy(graph), !.ret = unset,
                    !.ref = unset, !.st = [sync |-> FALSE, threads |-> NoThreads]]

\* population[self.leader]
leading(leader) == IF leader = -1 THEN Particles ELSE leader + 1

\* PSO.find_leader: the first particle of the highest current_fitness above
\* -(2 ** 63), the leader as it was when there is none
RECURSIVE find_leader_loop(_, _, _, _)
find_leader_loop(population, number, leaderFitness, leader) ==
    IF number > Particles THEN leader
    ELSE IF greater(population[number].ret, leaderFitness)
    THEN find_leader_loop(population, number + 1, population[number].ret, number - 1)
    ELSE find_leader_loop(population, number + 1, leaderFitness, leader)

find_leader(population, leader) == find_leader_loop(population, 1, unset, leader)

\* Particle.evaluate_fitness, after the fitness was computed
evaluated(particle, fitness) ==
    [particle EXCEPT !.ret = fitness,
                     !.ref = IF greater(fitness, @) THEN fitness ELSE @,
                     !.dict = IF greater(fitness, particle.ref) THEN particle.g.color ELSE @,
                     !.st.sync = TRUE]

\* Particle.evaluate_fitness; r is the result of sdr_widgerson on the graph of
\* the particle.  Only RuntimeError is caught; any other error, and the
\* division 1.0 / 0, ends the thread before sync is set.
evaluate_fitness(particle, r) ==
    IF r.err = NoErr /\ r.ret # 0
    THEN evaluated([particle EXCEPT !.g = r.g, !.err = NoErr], colored(r.ret))
    ELSE IF r.err = "RuntimeError"
    THEN evaluated([particle EXCEPT !.g = r.g, !.err = NoErr], failed)
    ELSE [particle EXCEPT !.g = r.g,
                          !.err = IF r.err = NoErr THEN "ZeroDivisionError" ELSE r.err]

\* the threads of iteration k that have not come to the end of
\* evaluate_fitness
Unfinished(k) ==
    {p \in 1 .. Particles : callers[p].st.threads[k] \notin {"none", "finished"}}

InitPSO ==
    /\ input \in PSOInputs
    /\ store = from_dimacs(input.n, input.E)
    /\ globalCOLORS = <<>>
    /\ globalGREEDY = <<>>
    /\ taken = NewGRAPH
    /\ last = NoCall
    /\ out = NoOut
    /\ ops = 0
    /\ callers = [p \in 0 .. Particles |->
                    IF p = 0
                    THEN [NoFrame EXCEPT !.routine = "run", !.pc = "spawn", !.ref = -1,
                                         !.st = [next |-> 1, scan |-> 1]]
                    ELSE Particle(from_dimacs(input.n, input.E))]
    /\ tables = NoTables

Quiet == UNCHANGED <<input, store, globalCOLORS, globalGREEDY, taken, out, ops, tables>>

\* run, the for loop over the population: the thread of the next particle is
\* started; self.iteration grows before the first, the busy wait follows
\* the last
Run_Start ==
    /\ callers[0].pc = "spawn"
    /\ \E p \in {callers[0].st.next}, k \in {IF callers[0].st.next = 1 THEN callers[0].i + 1
                                            ELSE callers[0].i} :
         callers' = [callers EXCEPT
                       ![0].i = k,
                       ![0].st.next = IF p = Particles THEN 1 ELSE p + 1,
                       ![0].st.scan = 1,
                       ![0].pc = IF p = Particles THEN "wait" ELSE "spawn",
                       ![p].st.threads[k] = "started"]
    /\ UNCHANGED last
    /\ Quiet

\* run, while not self.is_synchronized(): one read of a sync flag.  A False
\* ends the call with False and the loop calls again; True for the last
\* particle ends the wait.
Run_Wait ==
    /\ callers[0].pc = "wait"
    /\ callers' = [callers EXCEPT
                     ![0].st.scan = IF ~callers[callers[0].st.scan].st.sync
                                       \/ callers[0].st.scan = Particles
                                    THEN 1 ELSE @ + 1,
                     ![0].pc = IF callers[callers[0].st.scan].st.sync
                                  /\ callers[0].st.scan = Particles
                               THEN "find_leader" ELSE "wait"]
    /\ UNCHANGED last
    /\ Quiet

\* run, after the wait: find_leader, and the test of the desired minimum on
\* the fitness of the leader.  last.b counts the threads of this iteration
\* that are still on their way.
Run_FindLeader ==
    /\ callers[0].pc = "find_leader"
    /\ \E leader \in {find_leader(callers, callers[0].ref)} :
         callers' = [callers EXCEPT
                       ![0].ref = leader,
                       ![0].pc = IF desired(callers[leading(leader)].ret)
                                    \/ callers[0].i = Rounds
                                 THEN "report" ELSE "spawn"]
    /\ last' = [NoCall EXCEPT !.op = "find_leader", !.a = callers[0].i,
                              !.b = Cardinality(Unfinished(callers[0].i))]
    /\ Quiet

\* run, after the for loop: the leader is found once more
Run_Report ==
    /\ callers[0].pc = "report"
    /\ callers' = [callers EXCEPT ![0].ref = find_leader(callers, callers[0].ref),
                                  ![0].pc = "done"]
    /\ last' = [NoCall EXCEPT !.op = "run", !.a = callers[0].i]
    /\ Quiet

\* concurrent_run: particle.calculate_velocity(leader_vals)
Thread_calculate_velocity(p, k) ==
    /\ callers[p].st.threads[k] = "started"
    /\ callers' = [callers EXCEPT ![p].st.sync = FALSE,
                                  ![p].st.threads[k] = "velocity"]
    /\ UNCHANGED last
    /\ Quiet

\* concurrent_run: particle.move()
Thread_move(p, k) ==
    /\ callers[p].st.threads[k] = "velocity"
    /\ callers' = [callers EXCEPT ![p].st.threads[k] = "moved"]
    /\ UNCHANGED last
    /\ Quiet

\* concurrent_run: particle.evaluate_fitness(), taken as one step
Thread_evaluate_fitness(p, k) ==
    /\ callers[p].st.threads[k] = "moved"
    /\ \E picks \in PickSeqs :
         \E particle \in {evaluate_fitness(callers[p], sdr_widgerson(callers[p].g, picks))} :
             callers' = [callers EXCEPT
                           ![p] = [particle EXCEPT !.st.threads[k] =
                                      IF particle.err = NoErr THEN "finished" ELSE "died"]]
    /\ UNCHANGED last
    /\ Quiet

Thread(p, k) ==
    \/ Thread_calculate_velocity(p, k)
    \/ Thread_move(p, k)
    \/ Thread_evaluate_fitness(p, k)

Run == Run_Start \/ Run_Wait \/ Run_FindLeader \/ Run_Report

NextPSO ==
    \/ Run_Start
    \/ Run_Wait
    \/ Run_FindLeader
    \/ Run_Report
    \/ \E p \in 1 .. Particles, k \in 1 .. Rounds : Thread_calculate_velocity(p, k)
    \/ \E p \in 1 .. Particles, k \in 1 .. Rounds : Thread_move(p, k)
    \/ \E p \in 1 .. Particles, k \in 1 .. Rounds : Thread_evaluate_fitness(p, k)

SpecPSO == InitPSO /\ [][NextPSO]_vars

\* Every thread that can take a step takes one in the end, and so does run.
\* Thread_evaluate_fitness(p, k) is enabled exactly when the thread is at
\* "moved" and every step of it leaves "moved", so its weak fairness is
\* written as what it amounts to: the thread is not at "moved" for ever.
SpecPSOFair ==
    /\ InitPSO
    /\ [][NextPSO]_vars
    /\ WF_vars(Run)
    /\ \A p \in 1 .. Particles, k \in 1 .. Rounds :
         /\ WF_vars(Thread_calculate_velocity(p, k))
         /\ WF_vars(Thread_move(p, k))
         /\ []<>(callers[p].st.threads[k] # "moved")

\* sdr_c in either mode; t random choices were made before the call
Call_sdr_c ==
    /\ Idle
    /\ \E seed \in PickSeqs, proposal \in Proposals_c, iterated \in BOOLEAN, t \in 0 .. 1 :
         \E r \in {sdr_c(store, <<>>, iterated, proposal, seed, t)} :
             /\ last' = [NoCall EXCEPT !.op = IF iterated THEN "sdir_c" ELSE "sdfr_c",
                                      !.a = proposal, !.b = t, !.picks = seed]
             /\ out' = [NoOut EXCEPT !.ret = r.ret, !.err = r.err, !.dict = r.dict,
                                     !.rec = r.k,
                                     !.greedy = IF r.trial = NoErr THEN 1 ELSE 0]
    /\ UNCHANGED <<callers, tables, input, store, globalCOLORS, globalGREEDY, taken, ops>>

SpecFixed == InitAlg /\ [][Call_sdr_c]_vars

NextPick ==
    \/ Pick_get_random_vertex
    \/ Pick_sdr_d

SpecPick == InitAlg /\ [][NextPick]_vars

Call_sdir_c ==
    /\ Idle
    /\ \E picks \in PickSeqs, proposal \in Proposals_c :
         \E r \in {sdir_c(store, <<>>, proposal, picks, 0)} :
             /\ last' = [NoCall EXCEPT !.op = "sdir_c", !.a = proposal, !.picks = picks]
             /\ out' = [NoOut EXCEPT !.ret = r.ret, !.err = r.err, !.dict = r.dict]
    /\ UNCHANGED <<callers, tables, input, store, globalCOLORS, globalGREEDY, taken, ops>>

Call_sdr_e ==
    /\ Idle
    /\ \E picks \in PickSeqs :
         \E r \in {sdr_e(store, picks)} :
             /\ store' = r.g
             /\ last' = [NoCall EXCEPT !.op = "sdr_e", !.picks = picks]
             /\ out' = [NoOut EXCEPT !.ret = r.ret, !.err = r.err,
                                     !.rec = r.rec, !.greedy = r.greedy]
    /\ UNCHANGED <<callers, tables, input, globalCOLORS, globalGREEDY, taken, ops>>

Call_sdr_widgerson ==
    /\ Idle
    /\ \E picks \in PickSeqs :
         \E r \in {sdr_widgerson(store, picks)} :
             /\ store' = r.g
             /\ last' = [NoCall EXCEPT !.op = "sdr_widgerson", !.picks = picks]
             /\ out' = [NoOut EXCEPT !.ret = r.ret, !.err = r.err, !.dict = r.dict,
                                     !.rec = r.rec, !.greedy = r.greedy]
    /\ UNCHANGED <<callers, tables, input, globalCOLORS, globalGREEDY, taken, ops>>

NextAlg ==
    \/ Call_b
    \/ Call_c
    \/ Call_d
    \/ Call_e
    \/ Call_sdr_d
    \/ Call_sdir_c
    \/ Call_sdr_e
    \/ Call_sdr_widgerson

SpecAlg == InitAlg /\ [][NextAlg]_vars

\* ------------------------------------- the graph store, one call at a time
Init == Start(StoreInputs)

\* a caller goes on while no call has raised
Ready == out.err = NoErr /\ ops < MaxOps

\* what every call on the store leaves alone
StoreCall(op, argA, argB) ==
    /\ last' = [NoCall EXCEPT !.op = op, !.a = argA, !.b = argB]
    /\ ops' = ops + 1
    /\ UNCHANGED <<callers, tables, input, globalCOLORS, globalGREEDY>>

AddVertex ==
    /\ Ready
    /\ \E vid \in 1 .. StoreN + 1 :
         /\ store' = add_vertex(store, vid)
         /\ out' = NoOut
         /\ StoreCall("add_vertex", vid, 0)
    /\ UNCHANGED taken

\* add_edge(endA, endB) for two different ids, vertices of the graph or not
AddEdge ==
    /\ Ready
    /\ \E endA \in 1 .. StoreN + 1, endB \in 1 .. StoreN + 1 :
         /\ endA # endB
         /\ \E r \in {add_edge_r(store, endA, endB)} :
              /\ store' = r.g
              /\ out' = [NoOut EXCEPT !.ret = IF r.ret THEN 1 ELSE 0]
              /\ StoreCall("add_edge", endA, endB)
    /\ UNCHANGED taken

DeleteVertex ==
    /\ Ready
    /\ \E vid \in 1 .. StoreN + 1 :
         /\ store' = delete_vertex(store, vid)
         /\ out' = [NoOut EXCEPT !.ret = IF contains(store.vertices, vid) THEN 1 ELSE 0]
         /\ StoreCall("delete_vertex", vid, 0)
    /\ UNCHANGED taken

BuildDEGREE ==
    /\ Ready
    /\ store' = build_DEGREE(store)
    /\ out' = NoOut
    /\ StoreCall("build_DEGREE", 0, 0)
    /\ UNCHANGED taken

\* graph.degrees.add(graph.vertices[vid]) for a vertex the index does not hold
Add ==
    /\ Ready
    /\ store.degrees.built
    /\ \E vid \in Live(store) :
         /\ ~store.bucket[vid]
         /\ store' = add(store, vid)
         /\ out' = NoOut
         /\ StoreCall("add", vid, 0)
    /\ UNCHANGED taken

\* graph.degrees.decrease(graph.vertices[vid]), for a vertex that has an edge
\* to lose
Decrease ==
    /\ Ready
    /\ store.degrees.built
    /\ \E vid \in Live(store) :
         /\ len(store, vid) > 0
         /\ \E r \in {decrease(store, vid)} :
             /\ store' = r.g
             /\ out' = [NoOut EXCEPT !.err = r.err]
             /\ StoreCall("decrease", vid, 0)
    /\ UNCHANGED taken

DeleteEdge ==
    /\ Ready
    /\ \E endA \in 1 .. StoreN + 1, endB \in 1 .. StoreN + 1 :
         \E r \in {delete_edge(store, endA, endB)} :
             /\ store' = r.g
             /\ out' = [NoOut EXCEPT !.ret = IF r.ret THEN 1 ELSE 0, !.err = r.err]
             /\ StoreCall("delete_edge", endA, endB)
    /\ UNCHANGED taken

\* the callers' way to delete an edge of an indexed graph
DecreaseAndDelete ==
    /\ Ready
    /\ store.degrees.built
    /\ \E endA \in Live(store), endB \in Live(store) :
         /\ contains(store.data[endA], endB)
         /\ \E r \in {decrease_and_delete(store, endA, endB, endA, endB)} :
              /\ store' = r.g
              /\ out' = [NoOut EXCEPT !.err = r.err]
              /\ StoreCall("decrease_and_delete", endA, endB)
    /\ UNCHANGED taken

Subgraph ==
    /\ Ready
    /\ \E vid \in Live(store) :
         \E r \in {subgraph(store, vid)} :
             /\ store' = r.g
             /\ taken' = r.sub
             /\ out' = [NoOut EXCEPT !.err = r.err]
             /\ StoreCall("subgraph", vid, 0)

GetMaxDegree ==
    /\ Ready
    /\ \E r \in {get_max_degree(store)} :
         /\ store' = r.g
         /\ out' = [NoOut EXCEPT !.ret = r.ret, !.err = r.err]
         /\ StoreCall("get_max_degree", 0, 0)
    /\ UNCHANGED taken

GetMinDegree ==
    /\ Ready
    /\ \E r \in {get_min_degree(store)} :
         /\ store' = r.g
         /\ out' = [NoOut EXCEPT !.ret = r.ret, !.err = r.err]
         /\ StoreCall("get_min_degree", 0, 0)
    /\ UNCHANGED taken

\* out.ret is the id of the vertex returned
GetMaxDegreeVertex ==
    /\ Ready
    /\ \E r \in {get_max_degree_vertex(store)} :
         /\ store' = r.g
         /\ out' = [NoOut EXCEPT !.ret = r.ret, !.err = r.err]
         /\ StoreCall("get_max_degree_vertex", 0, 0)
    /\ UNCHANGED taken

GetMinDegreeVertex ==
    /\ Ready
    /\ \E r \in {get_min_degree_vertex(store)} :
         /\ store' = r.g
         /\ out' = [NoOut EXCEPT !.ret = r.ret, !.err = r.err]
         /\ StoreCall("get_min_degree_vertex", 0, 0)
    /\ UNCHANGED taken

Next ==
    \/ AddVertex
    \/ AddEdge
    \/ DeleteVertex
    \/ BuildDEGREE
    \/ Add
    \/ Decrease
    \/ DeleteEdge
    \/ DecreaseAndDelete
    \/ Subgraph
    \/ GetMaxDegree
    \/ GetMinDegree
    \/ GetMaxDegreeVertex
    \/ GetMinDegreeVertex

Spec == Init /\ [][Next]_vars

\* graph.degrees = DEGREE(): an index that holds no vertex yet, as
\* build_DEGREE makes it before it adds the vertices
NewIndex ==
    /\ Ready
    /\ store' = [store EXCEPT !.degrees = NewDEGREE(TRUE),
                              !.bucket = [v \in VID |-> FALSE]]
    /\ out' = NoOut
    /\ StoreCall("DEGREE", 0, 0)
    /\ UNCHANGED taken

\* graph.degrees.add(graph.vertices[vid]) for any vertex of the graph
AddAny ==
    /\ Ready
    /\ store.degrees.built
    /\ \E vid \in Live(store) :
         /\ store' = add(store, vid)
         /\ out' = NoOut
         /\ StoreCall("add", vid, 0)
    /\ UNCHANGED taken

\* graph.degrees.decrease(graph.vertices[vid]) for any vertex of the graph
DecreaseAny ==
    /\ Ready
    /\ store.degrees.built
    /\ \E vid \in Live(store) :
         \E r \in {decrease(store, vid)} :
             /\ store' = r.g
             /\ out' = [NoOut EXCEPT !.err = r.err]
             /\ StoreCall("decrease", vid, 0)
    /\ UNCHANGED taken

\* an index under add and decrease alone, on a graph that gets new vertices
NextBuckets ==
    \/ AddVertex
    \/ NewIndex
    \/ BuildDEGREE
    \/ AddAny
    \/ DecreaseAny

SpecBuckets == Init /\ [][NextBuckets]_vars

\* the operations that keep both ends of every edge, and build_DEGREE, which
\* subgraph needs
NextEdges ==
    \/ AddVertex
    \/ AddEdge
    \/ BuildDEGREE
    \/ DeleteEdge
    \/ Subgraph

SpecEdges == Init /\ [][NextEdges]_vars

\* --------------------- a graph and its deep copy, one call on one of them
\* 'store' is the source and 'taken' the copy that copy.deepcopy(store) made.
\* A GRAPH of the model is the whole object: its Nodes, lists and DEGREE.
InitClone == Start(StoreInputs)

HasCopy == taken # NewGRAPH

Deepcopy ==
    /\ Ready
    /\ taken' = deepcopy(store)
    /\ out' = NoOut
    /\ StoreCall("deepcopy", 0, 0)
    /\ UNCHANGED store

\* graph.vertices[vid].color = colour, as color() does for every key
Recolor ==
    /\ Ready
    /\ \E vid \in Live(store), colour \in 0 .. 1 :
         \E r \in {color(store, vid :> colour)} :
             /\ store' = r.g
             /\ out' = [NoOut EXCEPT !.err = r.err]
             /\ StoreCall("color", vid, colour)
    /\ UNCHANGED taken

\* store.subgraph(vid), the subgraph it returns is a third object
SourceSubgraph ==
    /\ Ready
    /\ \E vid \in Live(store) :
         \E r \in {subgraph(store, vid)} :
             /\ store' = r.g
             /\ out' = [NoOut EXCEPT !.err = r.err]
             /\ StoreCall("source.subgraph", vid, 0)
    /\ UNCHANGED taken

CopyRecolor ==
    /\ Ready /\ HasCopy
    /\ \E vid \in Live(taken), colour \in 0 .. 1 :
         \E r \in {color(taken, vid :> colour)} :
             /\ taken' = r.g
             /\ out' = [NoOut EXCEPT !.err = r.err]
             /\ StoreCall("copy.color", vid, colour)
    /\ UNCHANGED store

CopyDeleteEdge ==
    /\ Ready /\ HasCopy
    /\ \E endA \in Live(taken), endB \in Live(taken) :
         \E r \in {delete_edge(taken, endA, endB)} :
             /\ taken' = r.g
             /\ out' = [NoOut EXCEPT !.ret = IF r.ret THEN 1 ELSE 0, !.err = r.err]
             /\ StoreCall("copy.delete_edge", endA, endB)
    /\ UNCHANGED store

CopyDeleteVertex ==
    /\ Ready /\ HasCopy
    /\ \E vid \in Live(taken) :
         /\ taken' = delete_vertex(taken, vid)
         /\ out' = [NoOut EXCEPT !.ret = 1]
         /\ StoreCall("copy.delete_vertex", vid, 0)
    /\ UNCHANGED store

CopyDecrease ==
    /\ Ready /\ HasCopy
    /\ taken.degrees.built
    /\ \E vid \in Live(taken) :
         /\ len(taken, vid) > 0
         /\ \E r \in {decrease(taken, vid)} :
              /\ taken' = r.g
              /\ out' = [NoOut EXCEPT !.err = r.err]
              /\ StoreCall("copy.decrease", vid, 0)
    /\ UNCHANGED store

CopySubgraph ==
    /\ Ready /\ HasCopy
    /\ \E vid \in Live(taken) :
         \E r \in {subgraph(taken, vid)} :
             /\ taken' = r.g
             /\ out' = [NoOut EXCEPT !.err = r.err]
             /\ StoreCall("copy.subgraph", vid, 0)
    /\ UNCHANGED store

NextClone ==
    \/ Deepcopy
    \/ BuildDEGREE
    \/ Recolor
    \/ DeleteEdge
    \/ DeleteVertex
    \/ Decrease
    \/ SourceSubgraph
    \/ CopyRecolor
    \/ CopyDeleteEdge
    \/ CopyDeleteVertex
    \/ CopyDecrease
    \/ CopySubgraph

SpecClone == InitClone /\ [][NextClone]_vars

\* ----------------------------------------- graphs written to files and read
\* str(x) of an int x >= 0: its decimal digits; int(s) reads them back
RECURSIVE str(_)
str(x) == IF x < 10 THEN <<x>> ELSE Append(str(x \div 10), x % 10)

\* int that reads the last digit only
int_last_digit(s) == IF Len(s) = 0 THEN 0 ELSE s[Len(s)]

RECURSIVE int(_)
int(s) == IF Len(s) = 0 THEN 0 ELSE 10 * int(SubSeq(s, 1, Len(s) - 1)) + s[Len(s)]

\* the entries of the adjacency list of vid with a larger id, as pairs
larger_neighbors(g, vid) ==
    [i \in 1 .. Len(SelectSeq(g.data[vid], LAMBDA x : vid < x)) |->
        <<vid, SelectSeq(g.data[vid], LAMBDA x : vid < x)[i]>>]

\* to_json: a "vertices" entry per vertex and an "edges" entry per pair
\* vertex, neighbour with vertex.nid < neighbor.nid, in list order
RECURSIVE to_json_loop(_, _, _)
to_json_loop(g, json_g, i) ==
    IF i > Len(g.vertices) THEN json_g
    ELSE to_json_loop(g,
           [vertices |-> Append(json_g.vertices,
                           [vid |-> g.vertices[i], label |-> str(g.color[g.vertices[i]]),
                            neighbors |-> g.data[g.vertices[i]]]),
            edges |-> json_g.edges \o larger_neighbors(g, g.vertices[i])],
           i + 1)

to_json(graph) == to_json_loop(graph, [vertices |-> <<>>, edges |-> <<>>], 1)

\* from_json: the vertices with their colours, the edges, then build_DEGREE
RECURSIVE from_json_vertices(_, _, _)
from_json_vertices(g, vs, i) ==
    IF i > Len(vs) THEN g
    ELSE from_json_vertices([add_vertex(g, vs[i].vid) EXCEPT
                               !.color[vs[i].vid] = int(vs[i].label)], vs, i + 1)

RECURSIVE from_json_edges(_, _, _)
from_json_edges(g, es, i) ==
    IF i > Len(es) THEN g
    ELSE from_json_edges(add_edge(g, es[i][1], es[i][2]), es, i + 1)

from_json(json_g) ==
    build_DEGREE(from_json_edges(from_json_vertices(NewGRAPH, json_g.vertices, 1),
                                 json_g.edges, 1))

\* to_dimacs: the vertices are renamed 1, 2, .. in list order; the file holds
\* the line 'p edge m n' and a line 'e a b' per pair vertex, neighbour with
\* vertex.nid < neighbor.nid, under the new names.  No line holds a colour.
\* A neighbour that is not a vertex of the graph has no new name: KeyError.
renames(g) == [v \in Live(g) |-> position(g.vertices, v)]

renamed(g, pairs) ==
    [i \in 1 .. Len(pairs) |-> <<renames(g)[pairs[i][1]], renames(g)[pairs[i][2]]>>]

RECURSIVE to_dimacs_edges(_, _, _)
to_dimacs_edges(g, lines, i) ==
    IF i > Len(g.vertices) THEN [lines |-> lines, err |-> NoErr]
    ELSE IF \E x \in Range(g.data[g.vertices[i]]) :
                g.vertices[i] < x /\ x \notin Live(g)
    THEN [lines |-> lines, err |-> "KeyError"]
    ELSE to_dimacs_edges(g, lines \o renamed(g, larger_neighbors(g, g.vertices[i])),
                         i + 1)

\* Result: [file, err]; file = [m, n, edges], what the lines p and e say.
\* The file is written after all lines are made: none when KeyError is raised.
to_dimacs(graph) ==
    [file |-> [m |-> graph.m, n |-> graph.n,
               edges |-> to_dimacs_edges(graph, <<>>, 1).lines],
     err |-> to_dimacs_edges(graph, <<>>, 1).err]

\* from_dimacs on such a file: the vertices 1 .. m of the line p, then
\* add_edge for every line e
from_dimacs_file(file) ==
    from_json_edges(from_dimacs_vertices(NewGRAPH, file.m, 1), file.edges, 1)

ToJson ==
    /\ Ready
    /\ out' = [NoOut EXCEPT !.dict = to_json(store)]
    /\ StoreCall("to_json", 0, 0)
    /\ UNCHANGED <<store, taken>>

\* from_json on the file to_json has just written
FromJson ==
    /\ Ready
    /\ last.op = "to_json"
    /\ taken' = from_json(out.dict)
    /\ out' = NoOut
    /\ StoreCall("from_json", 0, 0)
    /\ UNCHANGED store

ToDimacs ==
    /\ Ready
    /\ \E r \in {to_dimacs(store)} :
         out' = [NoOut EXCEPT !.dict = r.file, !.err = r.err]
    /\ StoreCall("to_dimacs", 0, 0)
    /\ UNCHANGED <<store, taken>>

\* from_dimacs on the file to_dimacs has just written
FromDimacs ==
    /\ Ready
    /\ last.op = "to_dimacs"
    /\ taken' = from_dimacs_file(out.dict)
    /\ out' = NoOut
    /\ StoreCall("from_dimacs", 0, 0)
    /\ UNCHANGED store

NextFiles ==
    \/ AddVertex
    \/ AddEdge
    \/ DeleteVertex
    \/ Recolor
    \/ ToJson
    \/ FromJson
    \/ ToDimacs
    \/ FromDimacs

SpecFiles == Init /\ [][NextFiles]_vars

\* GRAPH.check_coloring, the adjacency list nbs of vertex v from position j:
\* a neighbour that is no longer a vertex of the graph is dereferenced as None
RECURSIVE check_coloring_vertex(_, _, _, _)
check_coloring_vertex(g, v, nbs, j) ==
    IF j > Len(nbs) THEN NoErr
    ELSE IF ~contains(g.vertices, nbs[j]) THEN "AttributeError"
    ELSE IF g.color[v] = g.color[nbs[j]] THEN "RuntimeError"
    ELSE check_coloring_vertex(g, v, nbs, j + 1)

RECURSIVE check_coloring_loop(_, _, _)
check_coloring_loop(g, i, error) ==
    IF error # NoErr \/ i > Len(g.vertices) THEN error
    ELSE check_coloring_loop(g, i + 1,
             check_coloring_vertex(g, g.vertices[i], g.data[g.vertices[i]], 1))

\* GRAPH.check_coloring.  Result: the error raised, NoErr when it prints
check_coloring(g) == check_coloring_loop(g, 1, NoErr)

IsValid ==
    /\ Ready
    /\ \E nid \in Live(store), colour \in 0 .. 1 :
         \E r \in {is_valid(store, nid, colour)} :
             /\ out' = [NoOut EXCEPT !.ret = IF r.ret THEN 1 ELSE 0, !.err = r.err]
             /\ StoreCall("is_valid", nid, colour)
    /\ UNCHANGED <<store, taken>>

CheckColoring ==
    /\ Ready
    /\ out' = [NoOut EXCEPT !.err = check_coloring(store)]
    /\ StoreCall("check_coloring", 0, 0)
    /\ UNCHANGED <<store, taken>>

NextStale ==
    \/ AddVertex
    \/ AddEdge
    \/ DeleteVertex
    \/ Recolor
    \/ IsValid
    \/ CheckColoring

SpecStale == Init /\ [][NextStale]_vars

\* ---------- an indexed graph that is only consumed: subgraph, delete_vertex
\* and decrease, and the two queries for a vertex of extreme degree
NextIndex ==
    \/ BuildDEGREE
    \/ Subgraph
    \/ DeleteVertex
    \/ Decrease
    \/ GetMaxDegreeVertex
    \/ GetMinDegreeVertex

SpecIndex == Init /\ [][NextIndex]_vars

\* ------------- two callers at once, each on its own deep copy of the graph
\* A caller runs b(2, G, i, original=True) or d(G) on G = copy.deepcopy(store),
\* one piece of the routine per step.  b and d name the module's dictionaries
\* COLORS and GREEDY_COLORS: 'COLORS = dict()' binds the name to a new object,
\* and a later use of the name finds the object bound to it at that moment.
InitRuns == Start(StoreInputs)

Uninvolved == UNCHANGED <<input, store, globalCOLORS, globalGREEDY, taken, last,
                          out, ops>>

\* the table objects with object ref replaced by dict
written(ref, dict) == [tables.objs EXCEPT ![ref] = dict]

\* b, step 0: COLORS is bound to a new dictionary with the colours of G
B_Start ==
    /\ \E p \in Callers, i \in 0 .. MaxStart :
         /\ callers[p].pc = "idle"
         /\ \E g \in {deepcopy(store)} :
              /\ tables' = [tables EXCEPT !.objs = Append(@, initial_COLORS(g)),
                                          !.COLORS = Len(tables.objs) + 1]
              /\ callers' = [callers EXCEPT ![p] =
                    [NoFrame EXCEPT !.routine = "b", !.pc = "prepared",
                                    !.g = g, !.i = i]]
    /\ Uninvolved

\* b, step 2: bfs is called with the object COLORS is bound to now; its
\* first loop colours the isolated vertices
B_Isolated ==
    /\ \E p \in Callers :
         /\ callers[p].pc = "prepared"
         /\ \E st \in {bfs_isolated([g |-> callers[p].g,
                                      dict |-> tables.objs[tables.COLORS],
                                      flag |-> {}, queue |-> <<>>, ok |-> TRUE,
                                      err |-> NoErr], callers[p].i, 1)} :
              /\ tables' = [tables EXCEPT !.objs = written(tables.COLORS, st.dict)]
              /\ callers' = [callers EXCEPT ![p].pc = "isolated",
                                            ![p].ref = tables.COLORS,
                                            ![p].st = st]
    /\ Uninvolved

\* b, step 2: the second loop of bfs, and the return of bfs and of b.  The
\* caller finds its colours in the dictionary COLORS is bound to.
B_Roots ==
    /\ \E p \in Callers :
         /\ callers[p].pc = "isolated"
         /\ \E st \in {bfs_roots([callers[p].st EXCEPT
                                     !.dict = tables.objs[callers[p].ref]],
                                   callers[p].i, 1)} :
              /\ tables' = [tables EXCEPT !.objs = written(callers[p].ref, st.dict)]
              /\ callers' = [callers EXCEPT ![p] =
                    [@ EXCEPT !.pc = "done", !.st = <<>>, !.g = st.g,
                              !.ret = b_two(st).ret, !.err = b_two(st).err,
                              !.dict = written(callers[p].ref, st.dict)[tables.COLORS]]]
    /\ Uninvolved

\* d, up to its outer loop: GREEDY_COLORS is bound to a new, empty dictionary
D_Start ==
    /\ \E p \in Callers :
         /\ callers[p].pc = "idle"
         /\ \E g \in {deepcopy(store)} :
              /\ tables' = [tables EXCEPT !.objs = Append(@, <<>>),
                                          !.GREEDY_COLORS = Len(tables.objs) + 1]
              /\ callers' = [callers EXCEPT ![p] =
                    [NoFrame EXCEPT !.routine = "d", !.pc = "outer", !.g = g,
                       !.st = [cg |-> build_DEGREE(deepcopy(g)), un |-> NewGRAPH,
                               dict |-> <<>>, i |-> 1, t |-> 0, err |-> NoErr]]]
    /\ Uninvolved

\* d, the test of the outer loop: a new colour class is begun, or d returns
\* and the caller finds its colours in the dictionary GREEDY_COLORS is bound to
D_Outer ==
    /\ \E p \in Callers :
         /\ callers[p].pc = "outer"
         /\ callers' = [callers EXCEPT ![p] =
               IF callers[p].st.err # NoErr \/ is_empty(callers[p].st.cg.vertices)
               THEN [callers[p] EXCEPT
                       !.pc = "done", !.ret = d_return(callers[p].st).ret,
                       !.err = callers[p].st.err,
                       !.dict = tables.objs[tables.GREEDY_COLORS]]
               ELSE [callers[p] EXCEPT
                       !.pc = "inner",
                       !.st.un = build_DEGREE(deepcopy(callers[p].st.cg))]]
    /\ UNCHANGED tables
    /\ Uninvolved

\* d, one turn of the inner loop: a vertex of minimum degree gets the colour
\* in the dictionary GREEDY_COLORS is bound to now; or the loop is over
D_Inner ==
    /\ \E p \in Callers :
         /\ callers[p].pc = "inner"
         /\ IF callers[p].st.err # NoErr \/ is_empty(callers[p].st.un.vertices)
            THEN /\ callers' = [callers EXCEPT ![p].pc = "outer",
                                               ![p].st = d_next_color(@)]
                 /\ UNCHANGED tables
            ELSE \E st \in {d_selected([callers[p].st EXCEPT
                                         !.dict = tables.objs[tables.GREEDY_COLORS]],
                                       get_min_degree_vertex(callers[p].st.un))} :
                   /\ tables' = [tables EXCEPT
                                   !.objs = written(tables.GREEDY_COLORS, st.dict)]
                   /\ callers' = [callers EXCEPT ![p].st = st]
    /\ Uninvolved

NextRuns ==
    \/ B_Start
    \/ B_Isolated
    \/ B_Roots
    \/ D_Start
    \/ D_Outer
    \/ D_Inner

SpecRuns == InitRuns /\ [][NextRuns]_vars

\* ------------------- the same routine on two deep copies, one after another
\* The second run finds COLORS, GREEDY_COLORS and the generator of module
\* random as the first run left them.
InitTwice == Start(Inputs)

\* the caller whose turn it is: the first one that has not run
FirstIdle(p) ==
    /\ callers[p].pc = "idle"
    /\ \A q \in Callers : q < p => callers[q].pc = "done"

\* the second caller repeats the call of the first
Again(p, routine, ref, i, seed) ==
    \/ p = 1
    \/ /\ callers[1].routine = routine
       /\ callers[1].ref = ref
       /\ callers[1].i = i
       /\ callers[1].st = seed

\* the frame of a caller whose routine has returned
Ran(routine, ref, i, seed, g, ret, err, dict) ==
    [routine |-> routine, pc |-> "done", g |-> g, i |-> i, ref |-> ref,
     st |-> seed, ret |-> ret, err |-> err, dict |-> dict]


Twice_b ==
    /\ \E p \in Callers, k \in 2 .. MaxK, i \in 0 .. MaxStart :
         /\ FirstIdle(p)
         /\ Again(p, "b", k, i, <<>>)
         /\ \E r \in {b(k, deepcopy(store), i, TRUE, globalCOLORS)} :
              /\ globalCOLORS' = r.dict
              /\ callers' = [callers EXCEPT ![p] =
                    Ran("b", k, i, <<>>, r.g, r.ret, r.err, r.dict)]
    /\ UNCHANGED <<input, store, globalGREEDY, taken, last, out, ops, tables>>

Twice_c ==
    /\ \E p \in Callers :
         /\ FirstIdle(p)
         /\ Again(p, "c", 0, 0, <<>>)
         /\ \E r \in {c(deepcopy(store), globalCOLORS)} :
              /\ globalCOLORS' = r.COLORS
              /\ callers' = [callers EXCEPT ![p] =
                    Ran("c", 0, 0, <<>>, deepcopy(store), r.ret, r.err, r.COLORS)]
    /\ UNCHANGED <<input, store, globalGREEDY, taken, last, out, ops, tables>>

Twice_d ==
    /\ \E p \in Callers :
         /\ FirstIdle(p)
         /\ Again(p, "d", 0, 0, <<>>)
         /\ \E r \in {d(deepcopy(store), <<>>)} :
              /\ globalGREEDY' = r.dict
              /\ callers' = [callers EXCEPT ![p] =
                    Ran("d", 0, 0, <<>>, deepcopy(store), r.ret, r.err, r.dict)]
    /\ UNCHANGED <<input, store, globalCOLORS, taken, last, out, ops, tables>>

\* e colours the graph it is given: the map is read from the vertices
Twice_e ==
    /\ \E p \in Callers :
         /\ FirstIdle(p)
         /\ Again(p, "e", 0, 0, <<>>)
         /\ \E r \in {e(deepcopy(store), globalCOLORS, globalGREEDY)} :
              /\ globalCOLORS' = r.COLORS
              /\ globalGREEDY' = r.GREEDY_COLORS
              /\ callers' = [callers EXCEPT ![p] =
                    Ran("e", 0, 0, <<>>, r.g, r.ret, r.err, initial_COLORS(r.g))]
    /\ UNCHANGED <<input, store, taken, last, out, ops, tables>>

\* G.set_seed(seed), then sdr_d(G, dict(), proposal)
Twice_sdr_d ==
    /\ \E p \in Callers, seed \in PickSeqs, proposal \in Proposals_d :
         /\ FirstIdle(p)
         /\ Again(p, "sdr_d", proposal, 0, seed)
         /\ \E r \in {sdr_d(deepcopy(store), <<>>, proposal, seed,
                             set_seed(tables.random, seed).t)} :
              /\ tables' = [tables EXCEPT !.random = [picks |-> seed, t |-> r.t]]
              /\ callers' = [callers EXCEPT ![p] =
                    Ran("sdr_d", proposal, 0, seed, deepcopy(store), r.ret, r.err,
                        r.dict)]
    /\ UNCHANGED <<input, store, globalCOLORS, globalGREEDY, taken, last, out, ops>>

\* G.set_seed(seed), then sdir_c(G, dict(), proposal)
Twice_sdir_c ==
    /\ \E p \in Callers, seed \in PickSeqs, proposal \in Proposals_c :
         /\ FirstIdle(p)
         /\ Again(p, "sdir_c", proposal, 0, seed)
         /\ \E r \in {sdir_c(deepcopy(store), <<>>, proposal, seed,
                              set_seed(tables.random, seed).t)} :
              /\ tables' = [tables EXCEPT !.random = [picks |-> seed, t |-> r.t]]
              /\ callers' = [callers EXCEPT ![p] =
                    Ran("sdir_c", proposal, 0, seed, deepcopy(store), r.ret, r.err,
                        r.dict)]
    /\ UNCHANGED <<input, store, globalCOLORS, globalGREEDY, taken, last, out, ops>>

NextTwice ==
    \/ Twice_b
    \/ Twice_c
    \/ Twice_d
    \/ Twice_e
    \/ Twice_sdr_d
    \/ Twice_sdir_c

SpecTwice == InitTwice /\ [][NextTwice]_vars

\* --------------- the loop of b and of sdr_b, one turn at a time (steps 3, 4)
\* The caller's frame: ref is k, i the next colour, st = [picks, t, start],
\* start the colour the call began with.  store is the graph the loop works
\* on, taken the subgraph of the last turn as the recursive call received it,
\* out.dict the colour dictionary, out.ret the colour of the last outer vertex
\* or, at the end, the number returned.
WideK == 4               \* b and sdr_b are stepped with k in 3 .. WideK

\* The seventeen-vertex family: vertex 1 with the neighbours 2 .. 10, and a
\* choice of further edges inside and outside its neighbourhood.
WideBase == {<<1, v>> : v \in 2 .. 10}
WidePool == {<<2, 3>>, <<3, 4>>, <<11, 12>>}
WideInputs == {[n |-> WideN, E |-> WideBase \cup T] : T \in SUBSET WidePool}

\* the lines 'e a b' of the file of an input, sorted as from_dimacs_edges
\* takes them
WideOrder == [i \in 1 .. 9 |-> <<1, i + 1>>] \o << <<2, 3>>, <<3, 4>>, <<11, 12>> >>

Imported(in) ==
    IF in.n = WideN
    THEN from_dimacs_file([m |-> in.n, n |-> Cardinality(in.E),
                           edges |-> SelectSeq(WideOrder, LAMBDA p : p \in in.E)])
    ELSE from_dimacs(in.n, in.E)

InitReduce ==
    /\ input \in BigInputs \cup WideInputs
    /\ store = Imported(input)
    /\ globalCOLORS = <<>>
    /\ globalGREEDY = <<>>
    /\ taken = NewGRAPH
    /\ last = NoCall
    /\ out = NoOut
    /\ ops = 0
    /\ callers = [p \in Callers |-> NoFrame]
    /\ tables = NoTables

\* the recursive call of a turn on the subgraph sub.  Result: [g, dict, ret, t, err].
recursive_call(f, sub, dict) ==
    IF f.routine = "b"
    THEN [g |-> b(f.ref - 1, sub, f.i, FALSE, dict).g,
          dict |-> b(f.ref - 1, sub, f.i, FALSE, dict).dict,
          ret |-> b(f.ref - 1, sub, f.i, FALSE, dict).ret,
          t |-> f.st.t,
          err |-> b(f.ref - 1, sub, f.i, FALSE, dict).err]
    ELSE sdr_b(f.ref - 1, sub, f.i, dict, 0, f.st.picks, f.st.t + 1)

\* a turn that ended with an error
turn_failed(g, dict, error) ==
    [g |-> g, sub |-> NewGRAPH, dict |-> dict, vertex |-> 0, ret |-> 0, t |-> 0,
     err |-> error]

\* the end of a turn: rb is the result of the recursive call; the outer
\* vertex gets the colour i + j and is deleted
turn_color(f, dict, vertex, sg, rb) ==
    IF rb.err # NoErr THEN turn_failed(sg.g, rb.dict, rb.err)
    ELSE [g |-> delete_vertex([sg.g EXCEPT !.color[vertex] = f.i + rb.ret], vertex),
          sub |-> sg.sub, dict |-> put(rb.dict, vertex, f.i + rb.ret),
          vertex |-> vertex, ret |-> rb.ret, t |-> rb.t, err |-> NoErr]

turn_recurse(f, dict, vertex, sg) ==
    IF sg.err # NoErr THEN turn_failed(sg.g, dict, sg.err)
    ELSE turn_color(f, dict, vertex, sg, recursive_call(f, sg.sub, dict))

\* sel is the result of get_max_degree_vertex (b) or get_random_vertex (sdr_b)
turn(f, dict, sel) ==
    IF sel.err # NoErr THEN turn_failed(sel.g, dict, sel.err)
    ELSE turn_recurse(f, dict, sel.ret, subgraph(sel.g, sel.ret))

selected(f, g) ==
    IF f.routine = "b" THEN get_max_degree_vertex(g)
    ELSE get_random_vertex(g, 0, f.st.picks, f.st.t)

InLoop == callers[1].pc = "loop" /\ out.err = NoErr

\* b(k, G, i, True) or sdr_b(k, G, i, dict()) up to its loop, on a graph with
\* more than 2 ^ k vertices
Reduce_Call ==
    /\ callers[1].pc = "idle"
    /\ \E k \in 3 .. WideK, i \in 0 .. 1, routine \in {"b", "sdr_b"}, picks \in PickSeqs :
         /\ ~k_ge_log2(k, Len(store.vertices))
         /\ routine = "b" => picks = <<0, 0>>
         /\ callers' = [callers EXCEPT ![1] =
               [NoFrame EXCEPT !.routine = routine, !.pc = "loop", !.ref = k, !.i = i,
                               !.st = [picks |-> picks, t |-> 0, start |-> i]]]
         /\ out' = [NoOut EXCEPT !.dict = IF routine = "b" THEN initial_COLORS(store)
                                          ELSE <<>>]
         /\ last' = [NoCall EXCEPT !.op = routine, !.a = k, !.b = i]
    /\ UNCHANGED <<input, store, globalCOLORS, globalGREEDY, taken, ops, tables>>

\* one turn of the while loop
Reduce_Turn ==
    /\ InLoop
    /\ get_max_degree(store).err = NoErr
    /\ get_max_degree(store).ret >= ceil_f_k(callers[1].ref, input.n)
    /\ \E r \in {turn(callers[1], out.dict,
                       selected(callers[1], get_max_degree(store).g))} :
         /\ store' = r.g
         /\ taken' = r.sub
         /\ out' = [NoOut EXCEPT !.dict = r.dict, !.ret = callers[1].i + r.ret,
                                 !.err = r.err]
         /\ last' = [NoCall EXCEPT !.op = "turn", !.a = r.vertex, !.b = callers[1].i]
         /\ callers' = [callers EXCEPT ![1].i = @ + r.ret, ![1].st.t = r.t]
    /\ UNCHANGED <<input, globalCOLORS, globalGREEDY, ops, tables>>

\* the loop is over: delta_coloring on what is left, and the return
Reduce_Residual ==
    /\ InLoop
    /\ get_max_degree(store).err = NoErr
    /\ get_max_degree(store).ret < ceil_f_k(callers[1].ref, input.n)
    /\ \E rd \in {delta_coloring(get_max_degree(store).g, out.dict, callers[1].i)} :
         /\ store' = rd.g
         /\ out' = [NoOut EXCEPT !.dict = rd.dict, !.ret = callers[1].i + rd.ret,
                                 !.err = rd.err]
         /\ last' = [NoCall EXCEPT !.op = "delta_coloring", !.a = rd.ret,
                                  !.b = callers[1].i]
         /\ callers' = [callers EXCEPT ![1].pc = "done"]
    /\ UNCHANGED <<input, globalCOLORS, globalGREEDY, taken, ops, tables>>

NextReduce ==
    \/ Reduce_Call
    \/ Reduce_Turn
    \/ Reduce_Residual

SpecReduce == InitReduce /\ [][NextReduce]_vars

\* ------------------------------------------------------------ properties
\* what the properties say about the graph that was read
InputVertices == 1 .. input.n

Degree(v) == Cardinality({edge \in input.E : v = edge[1] \/ v = edge[2]})

MaxDegree == Max(0, CHOOSE top \in {Degree(v) : v \in InputVertices} :
                      \A v \in InputVertices : Degree(v) <= top)

TwoColorable ==
    \E side \in [InputVertices -> {0, 1}] :
        \A edge \in input.E : side[edge[1]] # side[edge[2]]

ColorsEveryVertex(map) ==
    \A v \in InputVertices : v \in DOMAIN map /\ map[v] # SENTINEL

ValidColoring(map) ==
    /\ ColorsEveryVertex(map)
    /\ \A edge \in input.E : map[edge[1]] # map[edge[2]]

\* the colours the caller's graph carries
StoreColors == [v \in Live(store) |-> store.color[v]]

Completed(op) == last.op = op /\ out.err = NoErr

\* C1: whenever c (b run through it), d, e, sdir_c (sdr_b run through it),
\* sdr_d or sdr_widgerson completes, the colour map it produced gives every
\* vertex of the input graph a colour and no edge has two ends of one colour.
C1_Validity ==
    /\ \A op \in {"c", "d", "sdir_c", "sdr_d"} :
         Completed(op) => ValidColoring(out.dict)
    /\ Completed("e") => ValidColoring(globalCOLORS) /\ ValidColoring(globalGREEDY)
    /\ Completed("sdr_widgerson") =>
         ValidColoring(out.dict) /\ ValidColoring(StoreColors)

\* C1 witness: sdir_c completed on a nine-vertex graph with a triangle
C1_Witness ==
    /\ Completed("sdir_c")
    /\ input.n = BigN
    /\ ~TwoColorable
    /\ ValidColoring(out.dict)

\* C2: on every graph that is not 2-colourable e reports at least 3 colours,
\* and exactly 3 on the triangle.
C2_AtLeastThree ==
    (last.op = "e" /\ ~TwoColorable) =>
        /\ out.err = NoErr
        /\ out.ret >= 3
        /\ (input.n = 3 /\ Cardinality(input.E) = 3) => out.ret = 3

\* C3: b(2, G, i) succeeds on every bipartite graph and raises RuntimeError
\* on every graph with an odd cycle.
C3_DecidesBipartite ==
    (last.op = "b" /\ last.a = 2) =>
        /\ TwoColorable => out.err = NoErr
        /\ ~TwoColorable => out.err = "RuntimeError"

\* C3 witness: b(2, ..) succeeded on a graph with edges, several components
\* and an isolated vertex
C3_Witness ==
    /\ Completed("b")
    /\ last.a = 2
    /\ input.n = BigN
    /\ \E v \in InputVertices : Degree(v) = 0

\* C4: whenever b(2, G, i) succeeds, the colours it assigned are exactly
\* {i, i + 1} and it returns 2; the 4-cycle 1-2-3-4-1 with i = 1 gets
\* 1,2,1,2 or 2,1,2,1.
C4_ExactlyTwoColors ==
    (Completed("b") /\ last.a = 2) =>
        /\ Range(out.dict) = {last.b, last.b + 1}
        /\ out.ret = 2
        /\ (input = [n |-> 4, E |-> {<<1, 2>>, <<2, 3>>, <<3, 4>>, <<1, 4>>}]
            /\ last.b = 1) => out.dict \in {<<1, 2, 1, 2>>, <<2, 1, 2, 1>>}

\* C5: the number d or sdr_d returns is at most max_degree(G) + 1.
C5_GreedyBound ==
    \A op \in {"d", "sdr_d"} : Completed(op) => out.ret <= MaxDegree + 1

\* C5 witness: sdr_d used max_degree + 1 colours on a graph with edges
C5_Witness ==
    /\ Completed("sdr_d")
    /\ input.E # {}
    /\ out.ret = MaxDegree + 1

\* C6: the number c returns is the highest colour of the colouring its last
\* trial of b produced.
C6_ReturnsColorCount ==
    Completed("c") => out.ret = max_value(out.dict)

\* C7: on every graph with at least one vertex c and sdir_c return normally.
C7_TerminatesNormally ==
    \A op \in {"c", "sdir_c"} :
        (last.op = op /\ input.n >= 1) => out.err = NoErr

\* C8: e and sdr_e, once both colourings are made (each gave a number of
\* colours), return the smaller of the two numbers, and the caller's graph
\* then carries the colouring that gave it.
C8_BestOfTwo ==
    (last.op \in {"e", "sdr_e"} /\ out.rec > 0 /\ out.greedy > 0) =>
        /\ out.err = NoErr
        /\ out.ret = Min(out.rec, out.greedy)
        /\ ValidColoring(StoreColors)
        /\ max_value(StoreColors) = out.ret

\* every vertex of the graph stands in the bucket of its degree, and in no other
InItsBucket(g) ==
    /\ g.degrees.built
    /\ \A v \in Live(g) : \A deg \in DEG :
         contains(g.degrees.data[deg], v) <=> deg = len(g, v)

\* the degrees of the buckets that hold a vertex
NonEmptyBuckets(g) ==
    {deg \in Range(g.degrees.buckets) : ~is_empty(g.degrees.data[deg])}

\* the cached extremes are those of the non-empty buckets, 0 and SENTINEL
\* when there is none
ExtremesCached(g) ==
    /\ g.degrees.built
    /\ IF NonEmptyBuckets(g) = {}
       THEN g.degrees.max_degree = 0 /\ g.degrees.min_degree = SENTINEL
       ELSE /\ g.degrees.max_degree \in NonEmptyBuckets(g)
            /\ g.degrees.min_degree \in NonEmptyBuckets(g)
            /\ \A deg \in NonEmptyBuckets(g) :
                 g.degrees.min_degree <= deg /\ deg <= g.degrees.max_degree

\* C9: on a graph with a built DEGREE where every vertex stands in the bucket
\* of its degree, that is still so after a call of delete_edge or subgraph.
C9_DegreeIndexInvariant ==
    [][(/\ InItsBucket(store)
        /\ last'.op \in {"delete_edge", "subgraph"}
        /\ out'.err = NoErr) => InItsBucket(store')]_vars

\* C10: when the cached max_degree and min_degree are those of the non-empty
\* buckets, they still are after a call of add, decrease or subgraph.
C10_CachedExtremes ==
    [][(/\ ExtremesCached(store)
        /\ last'.op \in {"add", "decrease", "subgraph"}
        /\ out'.err = NoErr) => ExtremesCached(store')]_vars

\* the neighbours of a vertex, as a set
Neighbors(g, v) == Range(g.data[v])

\* every adjacency entry has its twin, and both ends are vertices of the graph
Symmetric(g) ==
    \A v \in Live(g) : \A u \in Neighbors(g, v) :
        u # v /\ u \in Live(g) /\ v \in Neighbors(g, u)

\* C11: subgraph(v) on a graph with symmetric adjacency lists and every vertex
\* in the bucket of its degree returns normally; the subgraph holds exactly the
\* neighbours of v and the edges between them, the graph keeps exactly the other
\* vertices and the edges with no end among the neighbours, and every vertex
\* that stays has gone down one bucket for each edge it lost.
C11_SubgraphPartitions ==
    [][(last'.op = "subgraph" /\ Symmetric(store) /\ InItsBucket(store)) =>
        /\ out'.err = NoErr
        /\ Live(taken') = Neighbors(store, last'.a)
        /\ \A u \in Live(taken') :
             Neighbors(taken', u) = Neighbors(store, u) \cap Live(taken')
        /\ Live(store') = Live(store) \ Live(taken')
        /\ \A u \in Live(store') :
             /\ Neighbors(store', u) = Neighbors(store, u) \ Live(taken')
             /\ contains(store'.degrees.data[
                    len(store, u)
                    - Cardinality(Neighbors(store, u) \cap Live(taken'))], u)
        /\ InItsBucket(store')]_vars

\* C11 witness: subgraph took two adjacent neighbours out of an indexed graph
\* and left two vertices, one of them not the vertex it was called on
C11_Witness ==
    /\ Completed("subgraph")
    /\ Cardinality(Live(taken)) = 2
    /\ taken.n = 1
    /\ Cardinality(Live(store)) = 2
    /\ Symmetric(store)
    /\ InItsBucket(store)

\* the sum of the adjacency list lengths of the vertices from position i on
RECURSIVE SumLen(_, _)
SumLen(g, i) ==
    IF i > Len(g.vertices) THEN 0 ELSE len(g, g.vertices[i]) + SumLen(g, i + 1)

\* m counts the vertices and n the edges (half the adjacency entries)
CountersExact(g) ==
    /\ g.m = Cardinality(Live(g))
    /\ 2 * g.n = SumLen(g, 1)

EdgeSet(g) ==
    {{q[1], q[2]} : q \in {p \in Live(g) \X Live(g) : p[2] \in Neighbors(g, p[1])}}

\* cp has the vertices, colours and edges of src, and a DEGREE if src has one
SameGraph(src, cp) ==
    /\ cp.vertices = src.vertices
    /\ \A v \in Live(src) : cp.color[v] = src.color[v]
    /\ EdgeSet(cp) = EdgeSet(src)
    /\ cp.degrees.built = src.degrees.built

CopyOps == {"copy.color", "copy.delete_edge", "copy.delete_vertex",
            "copy.decrease", "copy.subgraph"}

Structure(g) == <<g.vertices, g.data, g.m, g.n>>

SoloRun(f) ==
    IF f.routine = "b" THEN b(2, deepcopy(store), f.i, TRUE, <<>>)
    ELSE d(deepcopy(store), <<>>)

\* C15: a caller whose routine has returned holds the colour map and the
\* count the routine gives when it runs alone, whatever another caller did
\* in between.
C15_NoSharedColoring ==
    \A p \in Callers :
        (callers[p].pc = "done" /\ callers[p].err = NoErr) =>
            /\ callers[p].dict = SoloRun(callers[p]).dict
            /\ callers[p].ret = SoloRun(callers[p]).ret

Made_sdir_c == sdir_c(store, <<>>, last.a, last.picks, 0)
Doubled_sdir_c ==
    sdir_c_double(store, 1, [dict |-> <<>>, t |-> 0], last.a, last.picks)
Searched_sdir_c ==
    sdir_c_search(store, Pow(2, Doubled_sdir_c.exponent - 1),
                  Pow(2, Doubled_sdir_c.exponent), Doubled_sdir_c.r, last.a, last.picks)
ReachedLastLoop ==
    /\ last.op = "sdir_c"
    /\ Doubled_sdir_c.r.err = NoErr
    /\ Searched_sdir_c.r.err \in {NoErr, "RuntimeError"}

\* one turn of the last loop from the trial before: the trial with lower on a
\* new copy (r1) and, when that one raises RuntimeError, the trial with upper
\* on another new copy
TurnAfter(r1) ==
    IF r1.err = "RuntimeError"
    THEN sdir_c_trial(store, Searched_sdir_c.upper, r1, last.a, last.picks)
    ELSE r1
TurnOf(before) ==
    TurnAfter(sdir_c_trial(store, Searched_sdir_c.lower, before, last.a, last.picks))

\* from turn j on: the turn that ends the last loop, [turns, r]: the number
\* of turns that raised RuntimeError before it and its own result, or
\* MAX_ITER and the result of the last turn when MAX_ITER turns raised it
RECURSIVE EndingTurn(_, _)
EndingTurned(j, r) ==
    IF r.err = "RuntimeError" THEN EndingTurn(j + 1, r) ELSE [turns |-> j, r |-> r]
EndingTurn(j, before) ==
    IF j = MAX_ITER THEN [turns |-> j, r |-> before]
    ELSE EndingTurned(j, TurnOf(before))

WrapperHolds(ending, made) ==
    /\ made.count = ending.turns
    /\ made.count <= MAX_ITER
    /\ (out.err = "RuntimeError") <=> (ending.turns = MAX_ITER)
    /\ ending.turns < MAX_ITER =>
          /\ out.err = ending.r.err
          /\ out.dict = ending.r.dict
          /\ out.err = NoErr => out.ret = max_value(ending.r.dict)

\* C17: the last loop of sdir_c makes its trials on new copies of the graph,
\* counts the turns that raised RuntimeError, ends with the first turn that
\* does not, never counts more than MAX_ITER turns, and sdir_c raises
\* RuntimeError exactly when MAX_ITER turns raised it; before the last loop
\* sdir_c raises no RuntimeError.
C17_RetryWrapper ==
    last.op = "sdir_c" =>
        IF ReachedLastLoop
        THEN WrapperHolds(EndingTurn(0, Searched_sdir_c.r), Made_sdir_c)
        ELSE out.err \notin {NoErr, "RuntimeError"}

\* C17: sdir_c returned colours after at least one turn that raised
\* RuntimeError.
C17_Witness ==
    /\ Completed("sdir_c")
    /\ ReachedLastLoop
    /\ Made_sdir_c.count >= 1
    /\ Made_sdir_c.count < MAX_ITER
    /\ out.ret >= 3

\* the edge a-b is not in g: an endpoint is not a vertex of g, or neither
\* adjacency list names the other endpoint
EdgeAbsent(g, ea, eb) ==
    \/ ea \notin Live(g)
    \/ eb \notin Live(g)
    \/ (eb \notin Neighbors(g, ea) /\ ea \notin Neighbors(g, eb))

\* C18: delete_edge(a, b) for an edge that is not in the graph returns False,
\* raises nothing and changes nothing.
C18_DeleteAbsentEdge ==
    [][(last'.op = "delete_edge" /\ EdgeAbsent(store, last'.a, last'.b)) =>
          /\ out'.err = NoErr
          /\ out'.ret = 0
          /\ store' = store]_vars

\* the same when an endpoint is not a vertex of the graph: this part holds
DeleteEdge_MissingEndpoint ==
    [][(/\ last'.op = "delete_edge"
        /\ (last'.a \notin Live(store) \/ last'.b \notin Live(store))) =>
          /\ out'.err = NoErr
          /\ out'.ret = 0
          /\ store' = store]_vars
\* vertex v is in g and no vertex of g has a longer (lower = FALSE) or a
\* shorter (lower = TRUE) adjacency list
ExtremeIn(g, v, lower) ==
    /\ v \in Live(g)
    /\ \A u \in Live(g) :
          IF lower THEN len(g, v) <= len(g, u) ELSE len(g, u) <= len(g, v)

\* C19: on a graph with a vertex, after subgraph, delete_vertex and decrease
\* calls, get_max_degree_vertex returns a vertex of the graph of maximum
\* degree and get_min_degree_vertex one of minimum degree.
C19_ExtremeVertexLive ==
    /\ (last.op = "get_max_degree_vertex" /\ Live(store) # {}) =>
           (out.err = NoErr /\ ExtremeIn(store, out.ret, FALSE))
    /\ (last.op = "get_min_degree_vertex" /\ Live(store) # {}) =>
           (out.err = NoErr /\ ExtremeIn(store, out.ret, TRUE))
\* the graph read back has the vertex ids, the edges and the colours of src
SameColoredGraph(src, back) ==
    /\ Live(back) = Live(src)
    /\ EdgeSet(back) = EdgeSet(src)
    /\ \A v \in Live(src) : back.color[v] = src.color[v]

MaxLen(g) == CHOOSE x \in {len(g, v) : v \in Live(g)} : \A v \in Live(g) : len(g, v) <= x

\* C21: the last stage of b and sdr_b never raises RuntimeError, and gives
\* every vertex left a colour from the start colour of the stage up to that
\* colour plus the maximum degree of the graph left, so that the number
\* delta_coloring returns is at most that maximum degree.
C21_ResidualStageBound ==
    last.op = "delta_coloring" =>
        /\ out.err # "RuntimeError"
        /\ out.err = NoErr =>
              /\ \A v \in Live(store) :
                    /\ store.color[v] \in last.b .. last.b + MaxLen(store)
                    /\ out.dict[v] = store.color[v]
              /\ Live(store) # {} => last.a <= MaxLen(store)

\* C21: the last stage used two colours on a graph left with an edge, after a
\* turn of the loop
C21_Witness ==
    /\ Completed("delta_coloring")
    /\ callers[1].i > callers[1].st.start
    /\ store.n >= 1
    /\ last.a = 1
    /\ \E v \in Live(store) : store.color[v] = last.b + 1

\* C22: the colour of the outer vertex of a turn is greater than the colour of
\* every vertex of the subgraph the recursive call of the turn coloured.
C22_OuterColorBeyond ==
    (last.op = "turn" /\ out.err = NoErr) =>
        \A u \in Live(taken) : out.dict[u] < out.ret

\* the same for calls that start with a colour of at least 1
OuterColorBeyond_FromOne ==
    (last.op = "turn" /\ out.err = NoErr /\ callers[1].st.start >= 1) =>
        \A u \in Live(taken) : out.dict[u] < out.ret

\* the stepped loop of b ends as b does
SteppedAs_b ==
    (callers[1].pc = "done" /\ callers[1].routine = "b") =>
        /\ out.err = b(callers[1].ref, Imported(input),
                       callers[1].st.start, TRUE, <<>>).err
        /\ out.dict = b(callers[1].ref, Imported(input),
                        callers[1].st.start, TRUE, <<>>).dict
        /\ out.ret = b(callers[1].ref, Imported(input),
                       callers[1].st.start, TRUE, <<>>).ret

\* b succeeds with k colours on a fresh copy of the graph
Succeeds(graph, k) == c_trial(graph, k, <<>>).err = NoErr

\* the lower end of the interval c searches: half the k of its first loop
SearchedFrom(graph) == Pow(2, c_double(graph, 1, <<>>).exponent - 1)

\* C23: when c has made its search, the k of its last call of b is the
\* smallest k of the searched interval at which b succeeds: b succeeds at
\* that k, and fails at every smaller k of the interval.
C23_SmallestK ==
    last.op = "c" =>
        /\ Succeeds(store, last.a)
        /\ \A k \in SearchedFrom(store) .. last.a - 1 : ~Succeeds(store, k)

\* the same for the calls of c that return
SmallestK_WhenReturned ==
    Completed("c") =>
        /\ Succeeds(store, last.a)
        /\ \A k \in SearchedFrom(store) .. last.a - 1 : ~Succeeds(store, k)

\* c returned after a search that moved its upper end: k = 3 of the interval 2 .. 4
SmallestK_Searched == Completed("c") /\ last.a = 3

\* the adjacency list of vertex u names a vertex that was deleted
Stale(g, u) == \E i \in 1 .. Len(g.data[u]) : ~contains(g.vertices, g.data[u][i])

\* C24: is_valid and check_coloring end without an error of dereferencing a
\* deleted vertex, also when delete_vertex has left it in its neighbours'
\* lists.
C24_StaleTolerated ==
    last.op \in {"is_valid", "check_coloring"} => out.err # "AttributeError"

\* with no deleted vertex in the lists read, neither of the two fails so
StaleFree_NoError ==
    /\ (last.op = "is_valid" /\ ~Stale(store, last.a)) => out.err = NoErr
    /\ (last.op = "check_coloring" /\ \A u \in Live(store) : ~Stale(store, u))
           => out.err \in {NoErr, "RuntimeError"}

\* is_valid answers on a vertex whose list names a deleted vertex: a live
\* neighbour before it in the list holds the colour
Stale_Answered ==
    /\ Completed("is_valid")
    /\ Stale(store, last.a)

\* a graph with a vertex and without an edge
Edgeless(g) == Len(g.vertices) >= 1 /\ \A v \in Live(g) : len(g, v) = 0

\* C25: on a graph with at least one vertex and no edges, get_random_vertex
\* returns a vertex under every proposal, without a division by the number
\* of edges or by the maximum degree, and sdr_d completes under every
\* proposal.
C25_EdgelessSelection ==
    (last.op \in {"get_random_vertex", "sdr_d"} /\ Edgeless(from_dimacs(input.n, input.E)))
        => out.err = NoErr

\* the same for the proposals that divide by neither
EdgelessSelection_Undivided ==
    (/\ last.op \in {"get_random_vertex", "sdr_d"}
     /\ last.a \in {0, WINNER_PROPOSAL_D}
     /\ Edgeless(from_dimacs(input.n, input.E)))
        => /\ out.err = NoErr
           /\ last.op = "get_random_vertex" => out.ret \in Live(store)
           /\ last.op = "sdr_d" => out.ret = 1

\* the proposals 1, 8 and 21 fail on every graph without an edge
EdgelessSelection_Divided ==
    (/\ last.op \in {"get_random_vertex", "sdr_d"}
     /\ last.a \in {1, WINNER_PROPOSAL_C, 21}
     /\ Edgeless(from_dimacs(input.n, input.E)))
        => out.err = "ZeroDivisionError"

\* v is in the list of u exactly when u is in the list of v, for the
\* vertices of g
LiveSymmetric(g) ==
    \A u \in Live(g), v \in Live(g) :
        v \in Neighbors(g, u) <=> u \in Neighbors(g, v)

\* C26: after any sequence of add_vertex, add_edge, delete_edge and subgraph
\* calls the adjacency of the graph and of the subgraph taken from it is
\* symmetric.
C26_AdjacencySymmetric == LiveSymmetric(store) /\ LiveSymmetric(taken)

\* C26: after two other calls, one of them add_vertex, a subgraph with an
\* edge was taken and a second vertex is left in the graph
C26_Witness ==
    /\ Completed("subgraph")
    /\ taken.n >= 1
    /\ ops >= 3
    /\ Cardinality(Live(store)) >= 2

Descending(list) == \A i \in 1 .. Len(list) - 1 : list[i] > list[i + 1]

\* the buckets of D that hold vertex v
BucketsOf(D, v) == {deg \in Range(D.buckets) : contains(D.data[deg], v)}

\* C27: after any sequence of DEGREE.add and DEGREE.decrease the buckets go
\* strictly down from the first to the last, so that there is one bucket for
\* a degree, every vertex held is held by a bucket of the sequence, and
\* every vertex that was added is in exactly one bucket.
C27_BucketSequence ==
    store.degrees.built =>
        /\ Descending(store.degrees.buckets)
        /\ \A deg \in DEG :
              ~is_empty(store.degrees.data[deg]) => contains(store.degrees.buckets, deg)
        /\ \A v \in Live(store) :
              store.bucket[v] => Cardinality(BucketsOf(store.degrees, v)) = 1

\* the buckets go strictly down, and hold every vertex that is held
BucketsInOrder(g) ==
    /\ Descending(g.degrees.buckets)
    /\ \A deg \in DEG :
          ~is_empty(g.degrees.data[deg]) => contains(g.degrees.buckets, deg)

\* every vertex that was added is in exactly one bucket
InOneBucket(g) ==
    \A v \in Live(g) : g.bucket[v] => Cardinality(BucketsOf(g.degrees, v)) = 1

\* C27, as the code has it: the buckets go strictly down after any sequence
\* of add and decrease, and every vertex added stays in exactly one bucket
\* under every decrease and under every add of a vertex the index does not
\* hold yet.
C27_BucketSequenceFreshAdd ==
    /\ [](store.degrees.built => BucketsInOrder(store))
    /\ [][(/\ InOneBucket(store)
           /\ ~(last'.op = "add" /\ store.bucket[last'.a]))
              => InOneBucket(store')]_vars

\* C27: decrease has made the bucket of degree 1 between those of 2 and 0
C27_Witness ==
    /\ Completed("decrease")
    /\ store.degrees.buckets = <<2, 1, 0>>
    /\ store.degrees.data[1] = <<last.a>>

\* the last trial of sdfr_c succeeded
FinalTrialDone == last.op = "sdfr_c" /\ out.greedy = 1

\* C28: once the trial at the final k has succeeded, sdfr_c completes and
\* returns the highest colour of the caller's map.
C28_FixedSeedReturns ==
    FinalTrialDone => (out.err = NoErr /\ out.ret = max_value(out.dict))

\* every trial starts from the seed: the colours left in the caller's map are
\* those of sdr_b with the final k run from the start of the seed's stream,
\* however many random choices were made before the call
FixedSeed_Reseeded ==
    FinalTrialDone =>
        out.dict = sdr_b(out.rec, deepcopy(store), 1, <<>>, last.a, last.picks, 0).dict

\* the call ends with the error of calling color without its dictionary
FixedSeed_Raises == FinalTrialDone => out.err = "TypeError"

\* C29: find_leader runs in an iteration of run only when every thread the
\* iteration started has finished calculate_velocity, move and
\* evaluate_fitness.
C29_BarrierHolds == last.op = "find_leader" => last.b = 0

\* the same for the first iteration, whose threads find every flag False
BarrierHolds_FirstIteration == (last.op = "find_leader" /\ last.a = 1) => last.b = 0

\* C30: the wait on is_synchronized is passed in the end and run ends, every
\* thread having set sync to True.
C30_RunEnds == <>(callers[0].pc = "done")

\* run ends on the graphs on which sdr_widgerson returns
RunEnds_WhenEvaluated == (input.n # 3) => <>(callers[0].pc = "done")

\* a thread that died leaves its particle unsynchronized and run in its wait
Died_NeverDone ==
    (\E p \in 1 .. Particles : callers[p].st.threads[1] = "died")
        => callers[0].pc \in {"spawn", "wait"}
====
